---- MODULE Spec2Model ----
(***************************************************************************)
(* A state-machine model of the NLMS echo canceller: the double-talk       *)
(* detector, the NLMS adaptive filter, the circular buffer, and the block  *)
(* drivers that orchestrate them.                                          *)
(*                                                                         *)
(* Numbers.  The program computes in floating point; the model computes    *)
(* the same expressions in fixed point, every quantity an integer count of *)
(* a stated unit, every division rounded where the program rounds:         *)
(*   samples            units of 1/SampleScale                             *)
(*   detector powers    units of 1/PowerScale    (1e-7)                    *)
(*   NLMS power estim.  units of 1/PEstScale     (1e-6)                    *)
(*   filter weights     units of 1/WeightScale                             *)
(*   error / clean      units of 1/(WeightScale*SampleScale)               *)
(* The sizes (block size, filter length, window size, hangover time) are   *)
(* the constructor's configuration; the model instantiates the program     *)
(* with a small configuration, as `new RealTimeProcessor({blockSize: 4,    *)
(* nlmsConfig: {filterLength: 3}, doubleTalkConfig: {windowSize: 6,        *)
(* hangoverTime: 2}})` does.                                               *)
(***************************************************************************)
EXTENDS Integers, Sequences, FiniteSets

\* ------------------------------------------------------------------------
\* Configuration of the modelled instance (constructor arguments)
\* ------------------------------------------------------------------------
BlockSize == 4
FilterLength == 3
WindowSize == 6
HangoverTime == 2

\* ------------------------------------------------------------------------
\* Fixed-point units
\* ------------------------------------------------------------------------
\* Samples are multiples of 1/SampleScale.
SampleScale == 2

\* Powers, power estimates and weights are carried to 7, 6 and 2 decimals.
PowerScale == 10^7
PEstScale == 10^6
WeightScale == 10^2

\* ------------------------------------------------------------------------
\* Bounds of the exploration
\* ------------------------------------------------------------------------
MaxSteps == 4
MaxWeight == 400

\* ------------------------------------------------------------------------
\* Arithmetic helpers
\* ------------------------------------------------------------------------
Abs(x) == IF x < 0 THEN -x ELSE x

\* Division rounded to the nearest integer, halves up (b > 0).
RoundDiv(a, b) == (a + (b \div 2)) \div b

RECURSIVE SumTo(_, _)
\* Sum of f[0] + ... + f[n-1].
SumTo(f, n) == IF n = 0 THEN 0 ELSE f[n - 1] + SumTo(f, n - 1)

Zeros(n) == [i \in 0..(n - 1) |-> 0]

\* F applied to the value of e, which is computed once.
With(e, F(_)) == CHOOSE y \in {F(x) : x \in {e}} : TRUE

\* A block given as a sequence, indexed from 0 as the program's arrays are.
Blk(s) == [i \in 0..(Len(s) - 1) |-> s[i + 1]]

BlockLen(b) == Cardinality(DOMAIN b)

\* A pair of blocks: the samples and the positions at which each block
\* holds NaN (such a position carries 0 in the block).
Signal(mic, ref, nanMic, nanRef) ==
    [mic |-> mic, ref |-> ref, nanMic |-> nanMic, nanRef |-> nanRef]

\* A pair of blocks of numbers.
Finite(mic, ref) == Signal(mic, ref, {}, {})

\* ------------------------------------------------------------------------
\* DoubleTalkDetector
\* ------------------------------------------------------------------------
\* Smoothing factor alpha = 0.95 of the power estimates, as AlphaNum/AlphaDen.
AlphaNum == 95
AlphaDen == 100

\* Initial value 1e-10 of the three power estimates: below the power unit.
InitPower == 0

\* farEndPower > 1e-6 and farEndPower < 1e-7, in units of 1/PowerScale.
FarOnThreshold == 10
FarOffThreshold == 1

DtdConfigInit ==
    [ powerRatioNum |-> 2, powerRatioDen |-> 1,
      correlationNum |-> 3, correlationDen |-> 5,
      hangoverTime |-> HangoverTime,
      windowSize |-> WindowSize ]

\* The fields that hold NaN: the three power estimates and the slots of the
\* two window buffers.  A field or slot that holds NaN carries 0.
DtdNoNaN ==
    [ nearEndPower |-> FALSE, farEndPower |-> FALSE, crossPower |-> FALSE,
      nearEndBuffer |-> {}, farEndBuffer |-> {} ]

\* new DoubleTalkDetector(config).
DtdNew(config) ==
    [ config |-> config,
      state |-> "idle",
      hangoverCounter |-> 0,
      nearEndPower |-> InitPower,
      farEndPower |-> InitPower,
      crossPower |-> InitPower,
      nearEndBuffer |-> Zeros(config.windowSize),
      farEndBuffer |-> Zeros(config.windowSize),
      bufferIndex |-> 0,
      nan |-> DtdNoNaN ]

DtdInit == DtdNew(DtdConfigInit)

\* The sum over i < n of a[i] * b[i], divided by m, in units of 1/PowerScale
\* (a read past the end of a block counts 0 here and makes the sum NaN).
BlockPowerOver(a, b, n, m) ==
    LET prod == [i \in 0..(n - 1) |->
                    IF i \in DOMAIN a /\ i \in DOMAIN b THEN a[i] * b[i] ELSE 0]
    IN  (SumTo(prod, n) * PowerScale) \div (SampleScale * SampleScale * m)

Smooth(old, new) == (AlphaNum * old + (AlphaDen - AlphaNum) * new) \div AlphaDen

\* updatePowerEstimates(nearEnd, farEnd): the three sums run over
\* nearEnd.length samples; the near and cross sums are divided by
\* nearEnd.length and the far sum by farEnd.length.  An estimate that takes
\* in a NaN sum is NaN from then on.
DtdUpdatePowerEstimates(d, sig) ==
    LET n == BlockLen(sig.mic)
        nearNaN == \E i \in 0..(n - 1) : i \in sig.nanMic
        farNaN == \E i \in 0..(n - 1) : i \in sig.nanRef \/ i \notin DOMAIN sig.ref
        nan == [d.nan EXCEPT !.nearEndPower = d.nan.nearEndPower \/ nearNaN,
                             !.farEndPower = d.nan.farEndPower \/ farNaN,
                             !.crossPower = d.nan.crossPower \/ nearNaN \/ farNaN]
    IN  [d EXCEPT !.nearEndPower =
                      IF nan.nearEndPower THEN 0
                      ELSE Smooth(d.nearEndPower, BlockPowerOver(sig.mic, sig.mic, n, n)),
                  !.farEndPower =
                      IF nan.farEndPower THEN 0
                      ELSE Smooth(d.farEndPower,
                                  BlockPowerOver(sig.ref, sig.ref, n, BlockLen(sig.ref))),
                  !.crossPower =
                      IF nan.crossPower THEN 0
                      ELSE Smooth(d.crossPower, BlockPowerOver(sig.mic, sig.ref, n, n)),
                  !.nan = nan]

\* One pass of the loop of updateCorrelationBuffers: sample i of both blocks
\* stored at bufferIndex.  A write to an index outside the window buffers is
\* dropped; a read past the end of farEnd stores NaN.
DtdWriteSample(d, sig, i) ==
    LET slot == d.bufferIndex
        nearNaN == i \in sig.nanMic
        farNaN == i \in sig.nanRef \/ i \notin DOMAIN sig.ref
        d1 == IF slot \in DOMAIN d.nearEndBuffer
              THEN [d EXCEPT !.nearEndBuffer[slot] = IF nearNaN THEN 0 ELSE sig.mic[i],
                             !.farEndBuffer[slot] = IF farNaN THEN 0 ELSE sig.ref[i],
                             !.nan.nearEndBuffer =
                                 IF nearNaN THEN d.nan.nearEndBuffer \cup {slot}
                                 ELSE d.nan.nearEndBuffer \ {slot},
                             !.nan.farEndBuffer =
                                 IF farNaN THEN d.nan.farEndBuffer \cup {slot}
                                 ELSE d.nan.farEndBuffer \ {slot}]
              ELSE d
    IN  [d1 EXCEPT !.bufferIndex = (d.bufferIndex + 1) % d.config.windowSize]

RECURSIVE DtdWriteBuffers(_, _, _)
\* The loop of updateCorrelationBuffers from sample i on.
DtdWriteBuffers(d, sig, i) ==
    IF i >= BlockLen(sig.mic) THEN d
    ELSE With(DtdWriteSample(d, sig, i), LAMBDA d1 : DtdWriteBuffers(d1, sig, i + 1))

DtdUpdateCorrelationBuffers(d, sig) ==
    With(d, LAMBDA d0 : DtdWriteBuffers(d0, sig, 0))

\* calculateCorrelation, as the three window moments scaled by windowSize^2:
\* the correlation is cov / sqrt(nearVar * farVar), or 0 when the
\* denominator is not above 1e-10 (for integer samples: when it is 0).
DtdCorrelationMoments(d) ==
    LET w == d.config.windowSize
        nb == d.nearEndBuffer
        fb == d.farEndBuffer
        correlation == SumTo([i \in 0..(w - 1) |-> nb[i] * fb[i]], w)
        nearSum == SumTo(nb, w)
        farSum == SumTo(fb, w)
        nearSumSq == SumTo([i \in 0..(w - 1) |-> nb[i] * nb[i]], w)
        farSumSq == SumTo([i \in 0..(w - 1) |-> fb[i] * fb[i]], w)
    IN  [ cov |-> w * correlation - nearSum * farSum,
          nearVar |-> w * nearSumSq - nearSum * nearSum,
          farVar |-> w * farSumSq - farSum * farSum ]

\* The sums of calculateCorrelation are NaN: the window loop reads past the
\* end of the window buffers (the reads give undefined), or a slot it reads
\* holds NaN.
DtdWindowOutside(d) ==
    \/ d.config.windowSize > BlockLen(d.nearEndBuffer)
    \/ \E i \in 0..(d.config.windowSize - 1) :
           i \in d.nan.nearEndBuffer \/ i \in d.nan.farEndBuffer

\* |correlation| < correlationThreshold.  With NaN sums the denominator is
\* not above 1e-10 and the correlation is 0.
DtdCorrelationTest(d) ==
    IF DtdWindowOutside(d) THEN 0 < d.config.correlationNum
    ELSE LET m == DtdCorrelationMoments(d)
             c == d.config
         IN  IF m.nearVar * m.farVar > 0
             THEN c.correlationDen * c.correlationDen * m.cov * m.cov
                    < c.correlationNum * c.correlationNum * m.nearVar * m.farVar
             ELSE 0 < c.correlationNum

\* nearEndPower / (farEndPower + 1e-10) > powerRatioThreshold; a comparison
\* with NaN is false.
DtdPowerTest(d) ==
    /\ ~d.nan.nearEndPower /\ ~d.nan.farEndPower
    /\ d.nearEndPower * d.config.powerRatioDen > d.config.powerRatioNum * d.farEndPower

DtdDetectDoubleTalk(d) == DtdPowerTest(d) \/ DtdCorrelationTest(d)

\* farEndPower > 1e-6, farEndPower < 1e-7 and farEndPower > 1e-7; a
\* comparison with NaN is false.
DtdFarAboveOn(d) == ~d.nan.farEndPower /\ d.farEndPower > FarOnThreshold
DtdFarBelowOff(d) == ~d.nan.farEndPower /\ d.farEndPower < FarOffThreshold
DtdFarAboveOff(d) == ~d.nan.farEndPower /\ d.farEndPower > FarOffThreshold

DtdUpdateState(d, isDoubleTalk) ==
    CASE d.state = "idle" ->
           IF DtdFarAboveOn(d)
           THEN [d EXCEPT !.state = IF isDoubleTalk THEN "double_talk" ELSE "single_talk"]
           ELSE d
      [] d.state = "single_talk" ->
           IF isDoubleTalk
           THEN [d EXCEPT !.state = "double_talk",
                          !.hangoverCounter = d.config.hangoverTime]
           ELSE IF DtdFarBelowOff(d)
                THEN [d EXCEPT !.state = "idle"]
                ELSE d
      [] d.state = "double_talk" ->
           IF ~isDoubleTalk
           THEN [d EXCEPT !.state = "hold",
                          !.hangoverCounter = d.config.hangoverTime]
           ELSE d
      [] d.state = "hold" ->
           LET c == d.hangoverCounter - 1
           IN  IF c <= 0
               THEN [d EXCEPT !.hangoverCounter = c,
                              !.state = IF DtdFarAboveOff(d)
                                        THEN "single_talk" ELSE "idle"]
               ELSE IF isDoubleTalk
                    THEN [d EXCEPT !.hangoverCounter = c, !.state = "double_talk"]
                    ELSE [d EXCEPT !.hangoverCounter = c]

\* The flag process() returns: adaptation is enabled outside double_talk and hold.
DtdAdaptFlag(d) == d.state # "double_talk" /\ d.state # "hold"

\* The detector after process(nearEnd, farEnd, error); dt is the decision taken.
DtdProcessSignal(d, sig) ==
    With(DtdUpdateCorrelationBuffers(DtdUpdatePowerEstimates(d, sig), sig),
         LAMBDA d2 : DtdUpdateState(d2, DtdDetectDoubleTalk(d2)))

\* process(nearEnd, farEnd, error) on blocks of numbers.
DtdProcess(d, nearEnd, farEnd) == DtdProcessSignal(d, Finite(nearEnd, farEnd))

\* updateConfig(newConfig): the config with the given fields replaced.  The
\* window buffers are left as they are.
DtdUpdateConfig(d, newConfig) ==
    [d EXCEPT !.config = [k \in DOMAIN d.config |->
                            IF k \in DOMAIN newConfig THEN newConfig[k] ELSE d.config[k]]]

DtdReset(d) ==
    [d EXCEPT !.state = "idle",
              !.hangoverCounter = 0,
              !.nearEndPower = InitPower,
              !.farEndPower = InitPower,
              !.crossPower = InitPower,
              !.nearEndBuffer = Zeros(d.config.windowSize),
              !.farEndBuffer = Zeros(d.config.windowSize),
              !.nan = DtdNoNaN]

\* ------------------------------------------------------------------------
\* NLMSProcessor
\* ------------------------------------------------------------------------
\* Smoothing 0.95 / 0.05 of the input power estimate, as BetaNum/BetaDen.
BetaNum == 95
BetaDen == 100

\* Initial power estimate 1e-6, in units of 1/PEstScale.
InitPowerEstimate == 1

\* updateMetrics refreshes the ERLE metric when more than 100 ms have passed.
MetricsPeriodMs == 100

NlmsConfigInit ==
    [ filterLength |-> FilterLength,
      stepNum |-> 1, stepDen |-> 10,               \* stepSize 0.1
      regularization |-> 1,                        \* 1e-6, in units of 1/PEstScale
      leakNum |-> 99999, leakDen |-> 100000 ]      \* leakageFactor 0.99999

\* initializeFilter at wall-clock time now.  The arrays are allocated with
\* the filter length the config holds at that moment.
NlmsInitializeFilter(n, now) ==
    [n EXCEPT !.weights = Zeros(n.config.filterLength),
              !.delayLine = Zeros(n.config.filterLength),
              !.powerEstimate = InitPowerEstimate,
              !.writeIndex = 0,
              !.lastUpdateTime = now,
              !.nan.weights = {},
              !.nan.delayLine = {},
              !.nan.powerEstimate = FALSE]

\* The fields that hold NaN: the slots of the two arrays and the two scalars.
\* A slot or scalar that holds NaN carries 0 in the numeric field.
NlmsNoNaN ==
    [weights |-> {}, delayLine |-> {}, powerEstimate |-> FALSE, echoReturnLoss |-> FALSE]

NlmsInit(now) ==
    NlmsInitializeFilter(
        [ config |-> NlmsConfigInit, weights |-> << >>, delayLine |-> << >>,
          powerEstimate |-> 0, writeIndex |-> 0,
          echoReturnLoss |-> 0, lastUpdateTime |-> 0, nan |-> NlmsNoNaN ], now)

\* updateConfig(newConfig): the config with the given fields replaced.  The
\* arrays are left as they are.
NlmsUpdateConfig(n, newConfig) ==
    [n EXCEPT !.config = [k \in DOMAIN n.config |->
                            IF k \in DOMAIN newConfig THEN newConfig[k] ELSE n.config[k]]]

\* delayIndex of tap i.
NlmsDelayIndex(n, i) ==
    (n.writeIndex - i + n.config.filterLength) % n.config.filterLength

\* The reference sample i taps back in the delay line (0 where the read is
\* not a number).
NlmsTap(n, i) ==
    IF NlmsDelayIndex(n, i) \in DOMAIN n.delayLine
    THEN n.delayLine[NlmsDelayIndex(n, i)] ELSE 0

\* Reading tap i gives NaN: the slot holds NaN, or the index is outside the
\* array and the read gives undefined.
NlmsTapNaN(n, i) ==
    \/ NlmsDelayIndex(n, i) \notin DOMAIN n.delayLine
    \/ NlmsDelayIndex(n, i) \in n.nan.delayLine

NlmsWeightNaN(n, i) == i \notin DOMAIN n.weights \/ i \in n.nan.weights

\* Estimated echo w . x, in units of 1/(WeightScale*SampleScale).
NlmsCalculateFilterOutput(n) ==
    LET len == n.config.filterLength
    IN  SumTo([i \in 0..(len - 1) |->
                 IF i \in DOMAIN n.weights THEN n.weights[i] * NlmsTap(n, i) ELSE 0], len)

\* The estimated echo is NaN: one of the products is.
NlmsFilterOutputNaN(n) ==
    \E i \in 0..(n.config.filterLength - 1) : NlmsWeightNaN(n, i) \/ NlmsTapNaN(n, i)

\* One tap of the weight update: leakage * w[i] + normalizedStepSize * e * x[i],
\* with normalizedStepSize = stepSize / (powerEstimate * filterLength + regularization).
NlmsNewWeight(n, errorSignal, i) ==
    LET c == n.config
        denom == n.powerEstimate * c.filterLength + c.regularization
    IN  RoundDiv(c.leakNum * n.weights[i], c.leakDen)
        + RoundDiv(c.stepNum * (PEstScale \div (SampleScale * SampleScale))
                     * errorSignal * NlmsTap(n, i),
                   c.stepDen * denom)

\* updateWeights(errorSignal); errorNaN tells that the error is NaN.  A write
\* to an index outside the weights array is dropped.
NlmsUpdateWeights(n, errorSignal, errorNaN) ==
    LET currentNaN == \/ n.writeIndex \notin DOMAIN n.delayLine
                      \/ n.writeIndex \in n.nan.delayLine
        pNaN == n.nan.powerEstimate \/ currentNaN
        currentSample == IF currentNaN THEN 0 ELSE n.delayLine[n.writeIndex]
        p == IF pNaN THEN 0
             ELSE (BetaNum * n.powerEstimate
                    + (BetaDen - BetaNum) * currentSample * currentSample
                        * (PEstScale \div (SampleScale * SampleScale))) \div BetaDen
        n1 == [n EXCEPT !.powerEstimate = p, !.nan.powerEstimate = pNaN]
        updated == {i \in DOMAIN n.weights : i < n.config.filterLength}
        nanNow == {i \in updated :
                     i \in n.nan.weights \/ pNaN \/ errorNaN \/ NlmsTapNaN(n, i)}
    IN  [n1 EXCEPT !.weights =
                       [i \in DOMAIN n.weights |->
                          IF i \in nanNow THEN 0
                          ELSE IF i \in updated THEN NlmsNewWeight(n1, errorSignal, i)
                          ELSE n.weights[i]],
                   !.nan.weights = nanNow \cup (n.nan.weights \ updated)]

\* The weights stay in the range the model's integers can carry.
NlmsInRange(n) ==
    \A i \in DOMAIN n.weights : Abs(n.weights[i]) <= MaxWeight

\* A signal given to process(): the two blocks and the positions at which
\* each holds NaN.
NlmsSignals(referenceSignal, microphoneSignal) ==
    [ref |-> referenceSignal, mic |-> microphoneSignal, nanRef |-> {}, nanMic |-> {}]

\* The body of process()'s loop for sample i: the filter after it, the error
\* sample it emits and whether that sample is NaN.  A read past the end of
\* the microphone block gives undefined, and the error is NaN.
NlmsSample(n, sig, i, enableAdaptation) ==
    LET stored == n.writeIndex \in DOMAIN n.delayLine
        n1 == IF stored
              THEN [n EXCEPT !.delayLine[n.writeIndex] =
                                 IF i \in sig.nanRef THEN 0 ELSE sig.ref[i],
                             !.nan.delayLine =
                                 IF i \in sig.nanRef
                                 THEN n.nan.delayLine \cup {n.writeIndex}
                                 ELSE n.nan.delayLine \ {n.writeIndex}]
              ELSE n
        micNaN == i \notin DOMAIN sig.mic \/ i \in sig.nanMic
        errorNaN == micNaN \/ NlmsFilterOutputNaN(n1)
        errorSignal == IF errorNaN THEN 0
                       ELSE sig.mic[i] * WeightScale - NlmsCalculateFilterOutput(n1)
        n2 == IF enableAdaptation THEN NlmsUpdateWeights(n1, errorSignal, errorNaN) ELSE n1
    IN  [ nlms |-> [n2 EXCEPT !.writeIndex = (n.writeIndex + 1) % n.config.filterLength],
          out |-> errorSignal,
          outNaN |-> errorNaN ]

RECURSIVE NlmsLoop(_, _, _, _, _)
\* process()'s loop from sample i on; acc collects the error samples and the
\* positions at which they are NaN, and adapted is the enableAdaptation flag
\* the call was given.  The loop is cut short (inRange FALSE) once a weight
\* leaves the model's range.
NlmsLoop(n, sig, enableAdaptation, acc, i) ==
    IF i >= BlockLen(sig.ref)
    THEN [nlms |-> n, output |-> acc.output, outputNaN |-> acc.outputNaN,
          inRange |-> TRUE, adapted |-> enableAdaptation]
    ELSE With(With(NlmsSample(n, sig, i, enableAdaptation),
                   LAMBDA r :
                     [nlms |-> r.nlms,
                      acc |-> [output |-> [acc.output EXCEPT ![i] = r.out],
                               outputNaN |-> IF r.outNaN THEN acc.outputNaN \cup {i}
                                             ELSE acc.outputNaN]]),
              LAMBDA s :
                IF ~NlmsInRange(s.nlms)
                THEN [nlms |-> s.nlms, output |-> acc.output,
                      outputNaN |-> acc.outputNaN, inRange |-> FALSE,
                      adapted |-> enableAdaptation]
                ELSE NlmsLoop(s.nlms, sig, enableAdaptation, s.acc, i + 1))

\* max(0, 20*log10(|w| + 1e-10)) over the whole weights array, in steps of
\* 10 dB: the largest k with |w|^2 >= 10^k.  It is NaN when a weight is.
NlmsCalculateERLE(n) ==
    LET len == BlockLen(n.weights)
        normSq == SumTo([i \in 0..(len - 1) |-> n.weights[i] * n.weights[i]], len)
        unit == WeightScale * WeightScale
    IN  IF normSq >= 100 * unit THEN 20
        ELSE IF normSq >= 10 * unit THEN 10
        ELSE 0

\* updateMetrics re-initialising the filter when it refreshes the metric.
NlmsUpdateMetricsReinit(n, now) ==
    IF now - n.lastUpdateTime > MetricsPeriodMs
    THEN [NlmsInitializeFilter(n, now) EXCEPT !.echoReturnLoss = NlmsCalculateERLE(n)]
    ELSE n

NlmsUpdateMetrics(n, now) ==
    IF now - n.lastUpdateTime > MetricsPeriodMs
    THEN [n EXCEPT !.echoReturnLoss = NlmsCalculateERLE(n),
                   !.nan.echoReturnLoss = (n.nan.weights # {}),
                   !.lastUpdateTime = now]
    ELSE n

\* The output array process() allocates: one slot per reference sample.
NlmsOutputArray(referenceSignal) == Zeros(BlockLen(referenceSignal))

\* process() on a signal that may hold NaN or a microphone block shorter
\* than the reference block, at time now.
NlmsProcessSignals(n, sig, enableAdaptation, now) ==
    With(NlmsLoop(n, sig, enableAdaptation,
                  [output |-> NlmsOutputArray(sig.ref), outputNaN |-> {}], 0),
         LAMBDA r : IF r.inRange
                    THEN [r EXCEPT !.nlms = NlmsUpdateMetrics(r.nlms, now)]
                    ELSE r)

\* process(referenceSignal, microphoneSignal, enableAdaptation) at time now.
NlmsProcess(n, referenceSignal, microphoneSignal, enableAdaptation, now) ==
    NlmsProcessSignals(n, NlmsSignals(referenceSignal, microphoneSignal),
                       enableAdaptation, now)

NlmsReset(n, now) == NlmsInitializeFilter(n, now)

\* ------------------------------------------------------------------------
\* CircularBuffer
\* ------------------------------------------------------------------------
RECURSIVE NextPowerOfTwoFrom(_, _)
NextPowerOfTwoFrom(power, n) ==
    IF power < n THEN NextPowerOfTwoFrom(power * 2, n) ELSE power

NextPowerOfTwo(n) == NextPowerOfTwoFrom(1, n)

\* new CircularBuffer(size); index & mask is index modulo the power-of-two
\* size.  nan is the set of slots that hold NaN; such a slot carries 0 in
\* buffer.
CbNew(size) ==
    LET sz == NextPowerOfTwo(size)
    IN  [ buffer |-> Zeros(sz), writeIndex |-> 0, readIndex |-> 0, size |-> sz,
          nan |-> {} ]

CbWrite(cb, sample) ==
    [cb EXCEPT !.buffer[cb.writeIndex] = sample,
               !.nan = cb.nan \ {cb.writeIndex},
               !.writeIndex = (cb.writeIndex + 1) % cb.size]

\* write(NaN).
CbWriteNaN(cb) ==
    [cb EXCEPT !.buffer[cb.writeIndex] = 0,
               !.nan = cb.nan \cup {cb.writeIndex},
               !.writeIndex = (cb.writeIndex + 1) % cb.size]

RECURSIVE CbWriteFrom(_, _, _, _)
\* The loop of writeBlock from sample i on; nan is the set of positions at
\* which the block holds NaN.
CbWriteFrom(cb, samples, nan, i) ==
    IF i >= BlockLen(samples) THEN cb
    ELSE With(IF i \in nan THEN CbWriteNaN(cb) ELSE CbWrite(cb, samples[i]),
              LAMBDA cb1 : CbWriteFrom(cb1, samples, nan, i + 1))

\* writeBlock of a block that holds NaN at the positions nan.
CbWriteSignal(cb, samples, nan) == CbWriteFrom(cb, samples, nan, 0)

CbWriteBlock(cb, samples) == CbWriteSignal(cb, samples, {})

\* read taking the slot after the one the delay names.
CbReadFromWriteIndex(cb, delay) == cb.buffer[(cb.writeIndex - delay) % cb.size]

CbRead(cb, delay) == cb.buffer[(cb.writeIndex - 1 - delay) % cb.size]

\* readBlock into an output array of the given length.
CbReadBlock(cb, length, delay) == [i \in 0..(length - 1) |-> CbRead(cb, delay + i)]

\* read(delay) gives NaN.
CbReadNaN(cb, delay) == ((cb.writeIndex - 1 - delay) % cb.size) \in cb.nan

\* The positions at which readBlock leaves NaN in the output array.
CbReadBlockNaN(cb, length, delay) ==
    {i \in 0..(length - 1) : CbReadNaN(cb, delay + i)}

CbClear(cb) ==
    [cb EXCEPT !.buffer = Zeros(cb.size), !.writeIndex = 0, !.readIndex = 0,
               !.nan = {}]

\* ------------------------------------------------------------------------
\* RealTimeProcessor
\* ------------------------------------------------------------------------
\* estimateDelay looks at delays below min(480, floor(length / 2)).
MaxDelayCap == 480

\* Smoothing factor alpha = 0.1 of the delay estimate, as num/den.
DelayAlphaNum == 1
DelayAlphaDen == 10

\* Residual suppression: factor 0.1 where |reference| > 0.001.
SuppressionNum == 1
SuppressionDen == 10
RefLevelDen == 1000

\* new RealTimeProcessor(config) at wall-clock time now, with the given
\* config.blockSize.
RtNewSized(blockSize, now) ==
    [ nlms |-> NlmsInit(now),
      dtd |-> DtdInit,
      micBuffer |-> CbNew(blockSize * 4),
      sysBuffer |-> CbNew(blockSize * 4),
      outputBuffer |-> CbNew(blockSize * 4),
      estimatedDelay |-> 0 ]

RtNew(now) == RtNewSized(BlockSize, now)

Min(a, b) == IF a < b THEN a ELSE b

\* The inner loop of estimateDelay: sum and count over i = delay .. while
\* i < mic.length and i - delay < sys.length.  The sum is NaN when one of
\* its products is.
DelayCorrelation(sig, delay) ==
    LET idx == {i \in 0..(BlockLen(sig.mic) - 1) :
                  i >= delay /\ i - delay < BlockLen(sig.ref)}
        n == BlockLen(sig.mic)
    IN  [ sum |-> SumTo([i \in 0..(n - 1) |->
                            IF i \in idx THEN sig.mic[i] * sig.ref[i - delay] ELSE 0], n),
          count |-> Cardinality(idx),
          nan |-> \E i \in idx : i \in sig.nanMic \/ (i - delay) \in sig.nanRef ]

RECURSIVE BestDelayFrom(_, _, _, _, _, _)
\* The outer loop of estimateDelay from `delay` on; maxCorrelation is kept as
\* the fraction maxSum / maxCount.  A NaN correlation is above nothing.
BestDelayFrom(sig, delay, maxDelay, maxSum, maxCount, bestDelay) ==
    IF delay >= maxDelay THEN bestDelay
    ELSE With(DelayCorrelation(sig, delay), LAMBDA c :
             IF c.count > 0 /\ ~c.nan /\ Abs(c.sum) * maxCount > Abs(maxSum) * c.count
             THEN BestDelayFrom(sig, delay + 1, maxDelay, c.sum, c.count, delay)
             ELSE BestDelayFrom(sig, delay + 1, maxDelay, maxSum, maxCount, bestDelay))

\* estimateDelay: Math.round(estimatedDelay * (1 - alpha) + bestDelay * alpha).
EstimateDelay(estimatedDelay, sig) ==
    LET maxDelay == Min(MaxDelayCap, BlockLen(sig.mic) \div 2)
        bestDelay == BestDelayFrom(sig, 0, maxDelay, 0, 1, 0)
    IN  RoundDiv(estimatedDelay * (DelayAlphaDen - DelayAlphaNum) + bestDelay * DelayAlphaNum,
                 DelayAlphaDen)

\* applyResidualSuppression(signal, reference).  A NaN reference level is
\* not above 0.001 and the sample is passed on; a NaN sample stays NaN (the
\* positions are those of the signal) and carries 0.
ApplyResidualSuppression(signal, reference) ==
    [i \in 0..(BlockLen(signal) - 1) |->
        IF i \in DOMAIN reference /\ Abs(reference[i]) * RefLevelDen > SampleScale
        THEN RoundDiv(signal[i] * (SuppressionDen - SuppressionNum), SuppressionDen)
        ELSE signal[i]]

\* The ERLE clamp [0, 60] dB of calculateMetrics.
RtErleMin == 0
RtErleMax == 60

\* The sum of the squares of a block.
SumSquares(signal) ==
    SumTo([i \in 0..(BlockLen(signal) - 1) |-> signal[i] * signal[i]], BlockLen(signal))

\* 10^(k/10) * cleanPower <= originalPower, with originalMic in sample units
\* and cleanMic in units of 1/(WeightScale*SampleScale).
RtErleAtLeast(originalMic, cleanMic, k) ==
    (SumSquares(originalMic) * WeightScale * WeightScale * BlockLen(cleanMic)) \div (10 ^ k)
        >= SumSquares(cleanMic) * BlockLen(originalMic)

\* The erle field of calculateMetrics, in steps of 10 dB:
\* originalPower > 0 ? 10 * log10(originalPower / (cleanPower + 1e-10)) : 0,
\* then Math.max(0, Math.min(60, erle)).  A NaN originalPower is not above 0
\* and gives 0; a NaN cleanPower gives NaN, which Math.min and Math.max
\* return as it is.  With cleanPower 0 the quotient is above 1e6 for every
\* original block that is not silent.
RtErle(originalMic, cleanMic, nanOriginal, nanClean) ==
    IF nanOriginal # {} \/ SumSquares(originalMic) = 0 THEN [value |-> 0, nan |-> FALSE]
    ELSE IF nanClean # {} THEN [value |-> 0, nan |-> TRUE]
    ELSE [value |-> CHOOSE e \in {10 * k : k \in (RtErleMin \div 10)..(RtErleMax \div 10)} :
                       /\ e = RtErleMin \/ RtErleAtLeast(originalMic, cleanMic, e \div 10)
                       /\ e = RtErleMax \/ ~RtErleAtLeast(originalMic, cleanMic,
                                                           (e \div 10) + 1),
          nan |-> FALSE]

\* The aligned microphone block processBlock hands to the detector and the filter.
RtAlignedMic(micBuffer, length) == CbReadBlock(micBuffer, length, 0)

\* The enableAdaptation argument of the nlmsProcessor.process call.
RtAdaptArg(adaptationEnabled) == adaptationEnabled

\* Steps 1 to 3 of processBlock: the blocks written to the circular buffers,
\* the delay estimate, and the aligned blocks read back (as a pair of blocks
\* with the positions that hold NaN).
RtAligned(r, sig) ==
    LET micBuffer == CbWriteSignal(r.micBuffer, sig.mic, sig.nanMic)
        sysBuffer == CbWriteSignal(r.sysBuffer, sig.ref, sig.nanRef)
        estimatedDelay == EstimateDelay(r.estimatedDelay, sig)
    IN  [ micBuffer |-> micBuffer,
          sysBuffer |-> sysBuffer,
          estimatedDelay |-> estimatedDelay,
          alignedMic |-> RtAlignedMic(micBuffer, BlockLen(sig.mic)),
          alignedSys |-> CbReadBlock(sysBuffer, BlockLen(sig.ref), estimatedDelay),
          aligned |-> Signal(RtAlignedMic(micBuffer, BlockLen(sig.mic)),
                             CbReadBlock(sysBuffer, BlockLen(sig.ref), estimatedDelay),
                             CbReadBlockNaN(micBuffer, BlockLen(sig.mic), 0),
                             CbReadBlockNaN(sysBuffer, BlockLen(sig.ref), estimatedDelay)) ]

\* processBlock(micBlock, sysBlock) at wall-clock time now, on a pair of
\* blocks that may hold NaN: the processor after the block, the
\* ProcessedBlock it returns, and what the block did (d1 is the detector at
\* the moment it takes its decision).
RtProcessBlock(r, sig, now) ==
    With(RtAligned(r, sig), LAMBDA a :
    With(DtdUpdateCorrelationBuffers(DtdUpdatePowerEstimates(r.dtd, a.aligned),
                                     a.aligned), LAMBDA d1 :
    With(DtdProcessSignal(r.dtd, a.aligned), LAMBDA dtd :
    With(NlmsProcessSignals(r.nlms, a.aligned, RtAdaptArg(DtdAdaptFlag(dtd)), now),
         LAMBDA f :
    With(ApplyResidualSuppression(f.output, a.alignedSys), LAMBDA finalCleanMic :
    With(RtErle(a.alignedMic, finalCleanMic, a.aligned.nanMic, f.outputNaN),
         LAMBDA erle :
        [ rt |-> [r EXCEPT !.nlms = f.nlms, !.dtd = dtd,
                           !.micBuffer = a.micBuffer, !.sysBuffer = a.sysBuffer,
                           !.estimatedDelay = a.estimatedDelay],
          inRange |-> f.inRange,
          block |-> [ cleanMicrophone |-> finalCleanMic,
                      cleanMicrophoneNaN |-> f.outputNaN,
                      cleanSystemAudio |-> a.alignedSys,
                      erle |-> erle.value,
                      erleNaN |-> erle.nan,
                      adaptationEnabled |-> DtdAdaptFlag(dtd),
                      doubleTalkState |-> ~DtdAdaptFlag(dtd),
                      estimatedDelay |-> a.estimatedDelay,
                      timestamp |-> now ],
          did |-> [ kind |-> "block",
                    mic |-> sig.mic, ref |-> sig.ref,
                    nonFinite |-> sig.nanMic \cup sig.nanRef,
                    alignedMic |-> a.alignedMic, alignedSys |-> a.alignedSys,
                    isDoubleTalk |-> DtdDetectDoubleTalk(d1),
                    powerTest |-> DtdPowerTest(d1),
                    farEndPower |-> d1.farEndPower,
                    stateBefore |-> r.dtd.state,
                    counterBefore |-> r.dtd.hangoverCounter,
                    weightsBefore |-> r.nlms.weights,
                    delayLineBefore |-> r.nlms.delayLine,
                    stateAfter |-> dtd.state,
                    counterAfter |-> dtd.hangoverCounter,
                    weightsAfter |-> f.nlms.weights,
                    output |-> finalCleanMic,
                    nlmsAdapt |-> f.adapted,
                    returned |-> DtdAdaptFlag(dtd) ] ]))))))

\* reset() leaving the double-talk detector as it is.
RtResetKeepsDetector(r, now) ==
    [r EXCEPT !.nlms = NlmsReset(r.nlms, now),
              !.micBuffer = CbClear(r.micBuffer),
              !.sysBuffer = CbClear(r.sysBuffer),
              !.outputBuffer = CbClear(r.outputBuffer),
              !.estimatedDelay = 0]

\* reset() at wall-clock time now.
RtReset(r, now) ==
    [r EXCEPT !.nlms = NlmsReset(r.nlms, now),
              !.dtd = DtdReset(r.dtd),
              !.micBuffer = CbClear(r.micBuffer),
              !.sysBuffer = CbClear(r.sysBuffer),
              !.outputBuffer = CbClear(r.outputBuffer),
              !.estimatedDelay = 0]

\* ------------------------------------------------------------------------
\* EchoCancellationSystem (main.ts) and AudioPlayer.processRecordedAudio
\* ------------------------------------------------------------------------
SysNew(now) == [ nlms |-> NlmsInit(now), dtd |-> DtdInit ]

\* process() called without its third argument, which defaults to true.
SysAdaptArgDefault(enableAdaptation) == TRUE

\* The enableAdaptation argument of the nlmsProcessor.process call.
SysAdaptArg(enableAdaptation) == enableAdaptation

\* processBlock(microphoneData, systemAudioData) at wall-clock time now.
SysProcessBlock(e, microphoneData, systemAudioData, now) ==
    With(DtdUpdateCorrelationBuffers(
             DtdUpdatePowerEstimates(e.dtd, Finite(microphoneData, systemAudioData)),
             Finite(microphoneData, systemAudioData)), LAMBDA d1 :
    With(DtdProcess(e.dtd, microphoneData, systemAudioData), LAMBDA dtd :
    With(NlmsProcess(e.nlms, systemAudioData, microphoneData,
                     SysAdaptArg(DtdAdaptFlag(dtd)), now), LAMBDA f :
        [ sys |-> [e EXCEPT !.nlms = f.nlms, !.dtd = dtd],
          inRange |-> f.inRange,
          processedAudio |-> f.output,
          did |-> [ kind |-> "block",
                    mic |-> microphoneData, ref |-> systemAudioData,
                    alignedMic |-> microphoneData, alignedSys |-> systemAudioData,
                    isDoubleTalk |-> DtdDetectDoubleTalk(d1),
                    powerTest |-> DtdPowerTest(d1),
                    farEndPower |-> d1.farEndPower,
                    stateBefore |-> e.dtd.state,
                    counterBefore |-> e.dtd.hangoverCounter,
                    weightsBefore |-> e.nlms.weights,
                    delayLineBefore |-> e.nlms.delayLine,
                    stateAfter |-> dtd.state,
                    counterAfter |-> dtd.hangoverCounter,
                    weightsAfter |-> f.nlms.weights,
                    output |-> f.output,
                    nlmsAdapt |-> f.adapted,
                    returned |-> DtdAdaptFlag(dtd) ] ])))

\* signal.slice(startIdx, endIdx) copied into a zeroed block of blockSize.
PaddedBlock(signal, startIdx, endIdx, blockSize) ==
    [i \in 0..(blockSize - 1) |->
        IF startIdx + i < Min(endIdx, BlockLen(signal)) THEN signal[startIdx + i] ELSE 0]

\* processedAudio allocated as a whole number of blocks.
OfflineResultLengthPadded(mixedLength) ==
    ((mixedLength + BlockSize - 1) \div BlockSize) * BlockSize

\* The length of the processedAudio array processRecordedAudio allocates.
OfflineResultLength(mixedLength) == mixedLength

RECURSIVE OfflineLoop(_, _, _, _, _, _, _)
\* The block loop of processRecordedAudio from blockIndex on.
OfflineLoop(e, mixed, cleanSystem, processedAudio, blockIndex, numBlocks, now) ==
    IF blockIndex >= numBlocks
    THEN [processedAudio |-> processedAudio, inRange |-> TRUE]
    ELSE LET startIdx == blockIndex * BlockSize
             endIdx == Min(startIdx + BlockSize, BlockLen(mixed))
             currentBlockSize == endIdx - startIdx
             micPadded == PaddedBlock(mixed, startIdx, endIdx, BlockSize)
             refPadded == PaddedBlock(cleanSystem, startIdx, endIdx, BlockSize)
         IN  With(SysProcessBlock(e, micPadded, refPadded, now), LAMBDA r :
                IF ~r.inRange
                THEN [processedAudio |-> processedAudio, inRange |-> FALSE]
                ELSE With([i \in DOMAIN processedAudio |->
                              IF i >= startIdx /\ i < startIdx + currentBlockSize
                              THEN r.processedAudio[i - startIdx] ELSE processedAudio[i]],
                          LAMBDA copied :
                            OfflineLoop(r.sys, mixed, cleanSystem, copied,
                                        blockIndex + 1, numBlocks, now)))

\* processRecordedAudio(recordedAudio): the processed signal of the comparison.
ProcessRecordedAudio(mixed, cleanSystem, now) ==
    LET len == BlockLen(mixed)
        numBlocks == (len + BlockSize - 1) \div BlockSize
    IN  OfflineLoop(SysNew(now), mixed, cleanSystem, Zeros(OfflineResultLength(len)),
                    0, numBlocks, now)

\* ------------------------------------------------------------------------
\* EchoCancellationProcessor (the AudioWorklet processor), in its two
\* variants: "enhanced" (part_000) and "basic" (part_001).  The sizes the
\* source fixes (buffers 8192, filter 512, power history 64) are scaled down.
\* ------------------------------------------------------------------------
WkBufferLength == 8
WkFilterLength == 3
WkHistoryLength == 2

\* The enhanced variant logs the levels of its first 10 processed blocks.
WkDebugBlocks == 10

\* Metrics are posted when processedSamples % interval = 0 (4800 in the source).
WkMetricsInterval == 6

\* stepSize 0.1 as num/den; leakage 0.9999 as num/den; doubleTalkThreshold 0.5.
WkStepNum == 1
WkStepDen == 10
WkLeakNum == 9999
WkLeakDen == 10000
WkDoubleTalkNum == 1
WkDoubleTalkDen == 2

\* regularization 1e-6, in units of 1/PEstScale.
WkRegularization == 1

\* The ERLE clamp [0, 60] dB of the enhanced variant.
WkErleMin == 0
WkErleMax == 60

\* Noise gate 0.001 and attenuation 0.1; limiter 0.95 (as 95/100).
WkNoiseFloorDen == 1000
WkGateDen == 10
WkMaxAmplitudeNum == 95
WkMaxAmplitudeDen == 100

WkNew(variant) ==
    [ variant |-> variant,
      isProcessing |-> FALSE,
      microphoneBuffer |-> Zeros(WkBufferLength),
      systemAudioBuffer |-> Zeros(WkBufferLength),
      bufferIndex |-> 0,
      adaptiveFilter |-> Zeros(WkFilterLength),
      micPowerHistory |-> Zeros(WkHistoryLength),
      echoPowerHistory |-> Zeros(WkHistoryLength),
      powerIndex |-> 0,
      processedSamples |-> 0,
      erleSum |-> 0,
      erleCount |-> 0,
      debugBlockCount |-> 0 ]

WkReset(w) ==
    [w EXCEPT !.adaptiveFilter = Zeros(WkFilterLength),
              !.microphoneBuffer = Zeros(WkBufferLength),
              !.systemAudioBuffer = Zeros(WkBufferLength),
              !.micPowerHistory = Zeros(WkHistoryLength),
              !.echoPowerHistory = Zeros(WkHistoryLength),
              !.bufferIndex = 0,
              !.powerIndex = 0,
              !.processedSamples = 0,
              !.erleSum = 0,
              !.erleCount = 0]

\* The metrics message of getMetrics and of the periodic push.  averageERLE
\* is kept as the pair erleSum, erleCount it is the quotient of.
WkMetricsMessage(w) ==
    [ type |-> "metrics",
      processedSamples |-> w.processedSamples,
      erleSum |-> w.erleSum,
      erleCount |-> w.erleCount,
      isProcessing |-> w.isProcessing ]

\* The parameters processSample reads: the fields the constructor sets, which
\* no method assigns afterwards, and the leakage written in processSample.
WkParameters(w) ==
    [ stepNum |-> WkStepNum, stepDen |-> WkStepDen,
      regularization |-> WkRegularization,
      doubleTalkNum |-> WkDoubleTalkNum, doubleTalkDen |-> WkDoubleTalkDen,
      leakNum |-> WkLeakNum, leakDen |-> WkLeakDen ]

\* handleMessage with a reset that also stops the processor.
WkHandleMessageResetStops(w, type) ==
    CASE type = "start" ->
           [wk |-> [w EXCEPT !.isProcessing = TRUE], posted |-> <<[type |-> "started"]>>]
      [] type = "stop" ->
           [wk |-> [w EXCEPT !.isProcessing = FALSE], posted |-> <<[type |-> "stopped"]>>]
      [] type = "getMetrics" ->
           [wk |-> w, posted |-> <<WkMetricsMessage(w)>>]
      [] type = "reset" ->
           [wk |-> [WkReset(w) EXCEPT !.isProcessing = FALSE], posted |-> << >>]
      [] OTHER -> [wk |-> w, posted |-> << >>]

\* handleMessage(data): the processor after it and the messages it posts.  A
\* message of a type the switch has no case for is dropped.
WkHandleMessage(w, type) ==
    CASE type = "start" ->
           [wk |-> [w EXCEPT !.isProcessing = TRUE], posted |-> <<[type |-> "started"]>>]
      [] type = "stop" ->
           [wk |-> [w EXCEPT !.isProcessing = FALSE], posted |-> <<[type |-> "stopped"]>>]
      [] type = "getMetrics" ->
           [wk |-> w, posted |-> <<WkMetricsMessage(w)>>]
      [] type = "reset" ->
           [wk |-> WkReset(w), posted |-> << >>]
      [] OTHER -> [wk |-> w, posted |-> << >>]

\* referenceVector[i]: the system-audio sample i samples back.
WkReference(w, i) ==
    w.systemAudioBuffer[(w.bufferIndex - i + WkBufferLength) % WkBufferLength]

\* 20*log10(|mic| / max(|error|, 1e-6)) in steps of 20 dB, from lo to hi:
\* the largest 20*k in that range with |mic| >= 10^k * |error|.
WkErleDb(micU, errU, lo, hi) ==
    LET m == Abs(micU)
        e == Abs(errU)
        db == IF e = 0 THEN (IF m >= WeightScale * SampleScale THEN 120 ELSE 100)
              ELSE IF m >= 1000 * e THEN 60
              ELSE IF m >= 100 * e THEN 40
              ELSE IF m >= 10 * e THEN 20
              ELSE IF m >= e THEN 0
              ELSE IF 10 * m >= e THEN -20
              ELSE IF 100 * m >= e THEN -40
              ELSE -60
    IN  IF db < lo THEN lo ELSE IF db > hi THEN hi ELSE db

\* The filter update of processSample: for each tap,
\* w[i] += stepSize / (sum x^2 + regularization) * error * x[i], then leakage
\* (enhanced variant only).
WkNewTap(w, errorSignal, i, leak) ==
    LET refPower == SumTo([k \in 0..(WkFilterLength - 1) |->
                              WkReference(w, k) * WkReference(w, k)], WkFilterLength)
                      * (PEstScale \div (SampleScale * SampleScale))
                    + WkRegularization
        updated == w.adaptiveFilter[i]
                   + RoundDiv(WkStepNum * (PEstScale \div (SampleScale * SampleScale * WkStepDen))
                                * errorSignal * WkReference(w, i),
                              refPower)
    IN  IF leak THEN RoundDiv(updated * WkLeakNum, WkLeakDen) ELSE updated

\* Whether processSample updates the filter for this sample.
WkAdapts(w, isDoubleTalk, systemSample) ==
    IF w.variant = "enhanced"
    THEN ~isDoubleTalk /\ systemSample * systemSample * PEstScale > SampleScale * SampleScale
    ELSE ~isDoubleTalk

\* processSample(micSample, systemSample): the processor after it and the
\* clean sample, in units of 1/(WeightScale*SampleScale).
WkProcessSample(w, micSample, systemSample) ==
    LET estimatedEcho == SumTo([i \in 0..(WkFilterLength - 1) |->
                                   w.adaptiveFilter[i] * WkReference(w, i)], WkFilterLength)
        micU == micSample * WeightScale
        errorSignal == micU - estimatedEcho
        micPower == micU * micU
        echoPower == estimatedEcho * estimatedEcho
        systemPower == systemSample * systemSample * WeightScale * WeightScale
        w1 == [w EXCEPT !.micPowerHistory[w.powerIndex] = micPower,
                        !.echoPowerHistory[w.powerIndex] = echoPower,
                        !.powerIndex = (w.powerIndex + 1) % WkHistoryLength]
        sumMic == SumTo(w1.micPowerHistory, WkHistoryLength)
        sumEcho == SumTo(w1.echoPowerHistory, WkHistoryLength)
        isDoubleTalk ==
            IF w.variant = "enhanced"
            THEN WkDoubleTalkDen * sumMic
                   > WkDoubleTalkNum * (sumEcho + WkHistoryLength * systemPower)
            ELSE WkDoubleTalkDen * sumMic > WkDoubleTalkNum * sumEcho
        adapts == WkAdapts(w1, isDoubleTalk, systemSample)
        w2 == IF adapts
              THEN [w1 EXCEPT !.adaptiveFilter =
                      [i \in 0..(WkFilterLength - 1) |->
                          WkNewTap(w1, errorSignal, i, w.variant = "enhanced")]]
              ELSE w1
        counted == IF w.variant = "enhanced"
                   THEN micSample # 0 /\ estimatedEcho # 0
                   ELSE micSample # 0
        erle == IF w.variant = "enhanced"
                THEN WkErleDb(micU, errorSignal, WkErleMin, WkErleMax)
                ELSE WkErleDb(micU, errorSignal, -120, 120)
        w3 == IF counted
              THEN [w2 EXCEPT !.erleSum = w.erleSum + erle, !.erleCount = w.erleCount + 1]
              ELSE w2
        gated == IF Abs(errorSignal) * WkNoiseFloorDen < WeightScale * SampleScale
                    /\ systemSample # 0
                 THEN RoundDiv(errorSignal, WkGateDen) ELSE errorSignal
        limit == (WkMaxAmplitudeNum * WeightScale * SampleScale) \div WkMaxAmplitudeDen
        limited == IF gated > limit THEN limit ELSE IF gated < -limit THEN -limit ELSE gated
        suppressed == IF micU = 0 THEN errorSignal
                      ELSE IF Abs(errorSignal) >= Abs(micU) THEN errorSignal
                      ELSE IF WkGateDen * Abs(errorSignal) <= Abs(micU)
                           THEN RoundDiv(errorSignal, WkGateDen)
                           ELSE RoundDiv(errorSignal * Abs(errorSignal), Abs(micU))
    IN  [ wk |-> w3,
          adapts |-> adapts,
          out |-> IF w.variant = "enhanced" THEN limited ELSE suppressed ]

RECURSIVE WkSampleLoop(_, _, _, _, _)
\* The sample loop of process() from sample i on.
WkSampleLoop(w, microphoneInput, systemAudioInput, output, i) ==
    IF i >= BlockLen(microphoneInput)
    THEN [wk |-> w, output |-> output, inRange |-> TRUE]
    ELSE With([w EXCEPT !.microphoneBuffer[w.bufferIndex] = microphoneInput[i],
                        !.systemAudioBuffer[w.bufferIndex] = systemAudioInput[i]],
              LAMBDA w1 :
         With(WkProcessSample(w1, microphoneInput[i], systemAudioInput[i]), LAMBDA r :
         With([r.wk EXCEPT !.bufferIndex = (w.bufferIndex + 1) % WkBufferLength],
              LAMBDA w2 :
                IF \E k \in 0..(WkFilterLength - 1) : Abs(w2.adaptiveFilter[k]) > MaxWeight
                THEN [wk |-> w2, output |-> output, inRange |-> FALSE]
                ELSE With([output EXCEPT ![i] = r.out], LAMBDA written :
                        WkSampleLoop(w2, microphoneInput, systemAudioInput,
                                     written, i + 1)))))

\* What process() writes to the output block while the processor is stopped.
\* The output block arrives zero-filled; mic is in sample units, the output in
\* units of 1/(WeightScale*SampleScale).
WkStoppedOutput(w, frame) ==
    IF w.variant = "enhanced" /\ frame.shape # "none"
    THEN [i \in DOMAIN frame.mic |-> frame.mic[i] * WeightScale]
    ELSE Zeros(BlockSize)

\* Whether process() has the two signals it needs: the enhanced variant reads
\* channels 0 and 1 of input 0, the basic variant channel 0 of inputs 0 and 1.
WkHasBoth(w, frame) ==
    IF w.variant = "enhanced" THEN frame.shape = "stereo" ELSE frame.shape = "dual"

\* process() without its isProcessing test: a stopped processor filters and
\* counts the frame like a started one.
WkProcessIgnoresStop(w, frame) ==
    IF ~WkHasBoth(w, frame)
    THEN [wk |-> w, output |-> Zeros(BlockSize), posted |-> << >>, inRange |-> TRUE]
    ELSE With(WkSampleLoop(w, frame.mic, frame.sys, Zeros(BlockSize), 0), LAMBDA r :
         With([r.wk EXCEPT !.processedSamples = w.processedSamples + BlockLen(frame.mic),
                           !.debugBlockCount =
                               IF w.variant = "enhanced" /\ w.debugBlockCount < WkDebugBlocks
                               THEN w.debugBlockCount + 1 ELSE w.debugBlockCount],
              LAMBDA w1 :
                [ wk |-> w1,
                  output |-> r.output,
                  posted |-> IF w.variant = "enhanced"
                                /\ w1.processedSamples % WkMetricsInterval = 0
                             THEN <<WkMetricsMessage(w1)>> ELSE << >>,
                  inRange |-> r.inRange ]))

\* process(inputs, outputs): the processor after it, the output block and the
\* messages posted.
WkProcess(w, frame) ==
    IF ~w.isProcessing
    THEN [wk |-> w, output |-> WkStoppedOutput(w, frame), posted |-> << >>, inRange |-> TRUE]
    ELSE IF ~WkHasBoth(w, frame)
    THEN [wk |-> w, output |-> Zeros(BlockSize), posted |-> << >>, inRange |-> TRUE]
    ELSE With(WkSampleLoop(w, frame.mic, frame.sys, Zeros(BlockSize), 0), LAMBDA r :
         With([r.wk EXCEPT !.processedSamples = w.processedSamples + BlockLen(frame.mic),
                           !.debugBlockCount =
                               IF w.variant = "enhanced" /\ w.debugBlockCount < WkDebugBlocks
                               THEN w.debugBlockCount + 1 ELSE w.debugBlockCount],
              LAMBDA w1 :
                [ wk |-> w1,
                  output |-> r.output,
                  posted |-> IF w.variant = "enhanced"
                                /\ w1.processedSamples % WkMetricsInterval = 0
                             THEN <<WkMetricsMessage(w1)>> ELSE << >>,
                  inRange |-> r.inRange ]))

\* ------------------------------------------------------------------------
\* Inputs
\* ------------------------------------------------------------------------
\* The input blocks (mic, ref), samples in units of 1/SampleScale:
\*   silence   both silent
\*   impulse   ref a unit impulse, mic the impulse delayed by 1 and scaled 0.5
\*   echo      mic equal to ref (far end only, echo path the identity)
\*   near      near-end speech only, ref silent
\*   double    far end active and a louder, independent near end
Blocks ==
    [ silence |-> [mic |-> Blk(<<0, 0, 0, 0>>), ref |-> Blk(<<0, 0, 0, 0>>)],
      impulse |-> [mic |-> Blk(<<0, 1, 0, 0>>), ref |-> Blk(<<2, 0, 0, 0>>)],
      echo    |-> [mic |-> Blk(<<2, -2, 0, 0>>), ref |-> Blk(<<2, -2, 0, 0>>)],
      near    |-> [mic |-> Blk(<<2, 1, 0, 0>>), ref |-> Blk(<<0, 0, 0, 0>>)],
      double  |-> [mic |-> Blk(<<2, 2, -2, 2>>), ref |-> Blk(<<1, 0, 0, 0>>)] ]

BlockNames == DOMAIN Blocks

\* Wall-clock time passing between two calls, in ms.
ClockSteps == {0, 150}

\* The shapes of a worklet frame: no channel, microphone only, microphone and
\* system audio as the two channels of input 0, or as two inputs.

MessageTypes == {"start", "stop", "getMetrics", "reset", "setConfig"}

\* The payload of a setConfig message: stepSize 0.5.
WkConfigUpdate == [stepNum |-> 1, stepDen |-> 2]

\* The frames a worklet run draws from.
Frames ==
    { [shape |-> "none", block |-> "silence"],
      [shape |-> "mono", block |-> "near"],
      [shape |-> "stereo", block |-> "echo"],
      [shape |-> "stereo", block |-> "double"],
      [shape |-> "dual", block |-> "echo"] }

\* The signals given to an NLMSProcessor used on its own (reference,
\* microphone): the echo block, the echo block with NaN as its second
\* microphone sample, the same with NaN as its second reference sample, and
\* the echo block with a microphone block of half the length, and one sample
\* of microphone signal over a silent reference.
Signals ==
    [ echo   |-> NlmsSignals(Blocks.echo.ref, Blocks.echo.mic),
      nanMic |-> [ref |-> Blocks.echo.ref, mic |-> Blk(<<2, 0, 0, 0>>),
                  nanRef |-> {}, nanMic |-> {1}],
      nanRef |-> [ref |-> Blk(<<2, 0, 0, 0>>), mic |-> Blocks.echo.mic,
                  nanRef |-> {1}, nanMic |-> {}],
      short  |-> NlmsSignals(Blocks.echo.ref, Blk(<<2, -2>>)),
      quiet  |-> NlmsSignals(Blk(<<0>>), Blk(<<2>>)) ]

\* The config updates given to the filter: stepSize 0.5, leakageFactor 0.5,
\* regularization 1e-3, and a filter one tap longer.
NlmsConfigUpdates ==
    { [stepNum |-> 1, stepDen |-> 2],
      [leakNum |-> 1, leakDen |-> 2],
      [regularization |-> 1000],
      [filterLength |-> FilterLength + 1] }

\* The config updates given to the detector: powerRatioThreshold 4,
\* correlationThreshold 0.9, a hangover one sample longer and a window one
\* sample longer.
DtdConfigUpdates ==
    { [powerRatioNum |-> 4, powerRatioDen |-> 1],
      [correlationNum |-> 9, correlationDen |-> 10],
      [hangoverTime |-> HangoverTime + 1],
      [windowSize |-> WindowSize + 1] }

\* The hangover times a detector used on its own is constructed with.
HangoverTimes == {0, HangoverTime}

\* The size a CircularBuffer used on its own is constructed with (capacity
\* NextPowerOfTwo(RingSize)), and the sizes tried: that one and 0.
RingSize == 3
RingSizes == {0, RingSize}

\* The length of the blocks written to and read from that buffer.
RingBlockLength == 3

\* Bound: calls made on a filter, detector or buffer used on its own.
MaxCoreSteps == 3

\* Bound: calls made on a detector before its input goes silent for good.
MaxQuietLead == 1

\* Bound: recordings of up to MaxRecordingLength samples.
MaxRecordingLength == 6

\* ------------------------------------------------------------------------
\* The delay-tracking stream
\* ------------------------------------------------------------------------
\* The delay-tracking stream: blocks of TrackBlockSize samples; the reference
\* repeats one of the patterns, the microphone is the reference delayed by
\* half a block at first and by a whole block after the change.
TrackBlockSize == 24
TrackDelayBefore == TrackBlockSize \div 2
TrackDelayAfter == TrackBlockSize

TrackPatterns ==
    << <<2, -1, 0, 1, -2, 1, 0>>,
       <<1, 2, -1, -2, 0>>,
       <<2, -1, 0, 1, -2, 1, 0, 2, 1, -1, -2, 0, 1>> >>

\* Sample j of the reference stream (nothing before the stream starts).
TrackRef(p, j) ==
    IF j < 0 THEN 0 ELSE TrackPatterns[p][(j % Len(TrackPatterns[p])) + 1]

\* Block number b of the stream under the given delay.
TrackSignal(p, b, delay) ==
    Finite([i \in 0..(TrackBlockSize - 1) |-> TrackRef(p, b * TrackBlockSize + i - delay)],
           [i \in 0..(TrackBlockSize - 1) |-> TrackRef(p, b * TrackBlockSize + i)])

\* Blocks given before the delay changes, at most, and blocks given after it.
MaxTrackLead == 2
MaxTrackTail == 114

\* Silent blocks given once the stream has stopped, at most.
MaxTrackSilent == 2

\* ------------------------------------------------------------------------
\* ParallelRecordingSystem (parallel-recording-system.ts)
\* ------------------------------------------------------------------------
\* Bound: startRecording calls made on one ParallelRecordingSystem.
MaxStartCalls == 2

\* new ParallelRecordingSystem(), initialized.  isProcessing and workletNode
\* are the fields of its RealTimeProcessor; timers are the auto-stop
\* timeouts set and not yet fired or cleared (ids 1, 2, ...; 0 is null);
\* starts gives, for each startRecording call, where it is: not made, thrown
\* at its entry, suspended at one of its three awaits, done, or failed.
PrsNew ==
    [ isRecording |-> FALSE,
      recordingTimeoutId |-> 0,
      rawRecordingProcessor |-> FALSE,
      processedRecordingProcessor |-> FALSE,
      isProcessing |-> FALSE,
      workletNode |-> FALSE,
      timers |-> {},
      timersSet |-> 0,
      starts |-> [k \in 1..MaxStartCalls |-> "none"],
      last |-> "none" ]

\* RealTimeProcessor.stopProcessing().
RtStopProcessing(p) ==
    IF ~p.isProcessing THEN p
    ELSE [p EXCEPT !.isProcessing = FALSE, !.workletNode = FALSE]

\* stopRecording() past its entry test: the flag, the timeout whose id is
\* held, the real-time processor, the recording nodes.
PrsStopRecording(p) ==
    [RtStopProcessing(p) EXCEPT !.isRecording = FALSE,
                                !.timers = p.timers \ {p.recordingTimeoutId},
                                !.recordingTimeoutId = 0,
                                !.rawRecordingProcessor = FALSE,
                                !.processedRecordingProcessor = FALSE]

\* The startRecording calls suspended at an await.
PrsSuspended(p) ==
    {k \in DOMAIN p.starts : p.starts[k] \in {"await1", "await2", "await3"}}

\* ------------------------------------------------------------------------
\* AudioRecorder (audio-recorder.ts)
\* ------------------------------------------------------------------------
\* config.maxDuration, in ticks of the clock the recorder runs against, and
\* the bound on that clock.
RecMaxDuration == 2
MaxRecTime == 4

\* Bound: recordings started on one recorder.
MaxRecordings == 2

\* new AudioRecorder() with its streams granted, at time 0.  timers are the
\* timeouts set and not yet fired: when each is due and the recording whose
\* startRecording set it; recording numbers the recordings started, and
\* startedAt is when the running one was.
RecNew ==
    [ isRecording |-> FALSE,
      timers |-> {},
      time |-> 0,
      recording |-> 0,
      startedAt |-> 0,
      last |-> [kind |-> "none"] ]

\* stopRecording() past its entry test.
RecStopRecording(r) == [r EXCEPT !.isRecording = FALSE]

\* ------------------------------------------------------------------------
\* AudioPlayer: playback (audio-player.ts)
\* ------------------------------------------------------------------------
\* Bound: sources started on one player.
MaxSources == 2

\* new AudioPlayer().  currentSource is the number of the source held (0 is
\* null); sources gives, for each source started, whether it is playing,
\* has finished or been stopped with its 'ended' event still to be
\* delivered, or has had it delivered.
PlayerNew ==
    [ isPlaying |-> FALSE,
      currentSource |-> 0,
      sources |-> << >> ]

\* stopPlayback().
PlayerStopPlayback(p) ==
    IF p.currentSource # 0 /\ p.isPlaying
    THEN [p EXCEPT !.sources[p.currentSource] =
                       IF @ = "playing" THEN "finished" ELSE @,
                   !.currentSource = 0,
                   !.isPlaying = FALSE]
    ELSE p

\* playAudio(audioData): stopPlayback() when playing, then a new source is
\* created, held and started.
PlayerPlayAudio(p) ==
    With(IF p.isPlaying THEN PlayerStopPlayback(p) ELSE p,
         LAMBDA q : [q EXCEPT !.sources = Append(@, "playing"),
                              !.currentSource = Len(q.sources) + 1,
                              !.isPlaying = TRUE])

\* The onended handler playAudio gives every source.
PlayerOnEnded(p) == [p EXCEPT !.isPlaying = FALSE, !.currentSource = 0]

\* ------------------------------------------------------------------------
\* State
\* ------------------------------------------------------------------------
VARIABLES
    under,      \* the object this run drives: "rt", "clock" (rt and its twin),
                \* "sys", "offline", "enhanced", "basic", "nlms", "dtd", "ring"
    now,        \* wall-clock time, ms
    hist,       \* the calls made so far: block names, "reset", "message", "frame"
    rt,         \* the RealTimeProcessor
    twin,       \* a second RealTimeProcessor fed the same blocks at other times
    shadow,     \* a RealTimeProcessor constructed when rt was last reset
    sys,        \* the EchoCancellationSystem
    out,        \* what the last call returned or wrote, per instance
    did,        \* what the last call did inside the object it was made on
    holdBlocks, \* consecutive blocks the detector has ended in hold
    offline,    \* the last processRecordedAudio call: input length and result
    wk,         \* the worklet processor
    outbox,     \* the messages the worklet has posted, oldest first
    nlms,       \* an NLMSProcessor used on its own
    dtd,        \* a DoubleTalkDetector used on its own
    pushes,     \* the metrics messages process() has posted since the worklet
                \* was constructed or last reset
    ring,       \* a CircularBuffer used on its own, with the samples written
                \* to it since it was constructed or cleared, oldest first
    quiet,      \* the input of the detector used on its own has gone silent
                \* for good
    prs,        \* the ParallelRecordingSystem
    rec,        \* the AudioRecorder
    player,     \* the AudioPlayer
    track       \* the delay-tracking run: the reference pattern, the blocks
                \* given so far, the blocks given since the delay changed, the
                \* silent blocks given since the stream stopped, and the
                \* delay estimate before the last of them

vars == <<under, now, hist, rt, twin, shadow, sys, out, did, holdBlocks, offline,
          wk, outbox, nlms, dtd, pushes, ring, track, quiet, prs, rec,
          player>>

NoBlock == [kind |-> "none"]

\* new CircularBuffer(n), nothing written yet.  count numbers the samples
\* written over the buffer's life, and constructed tells that the constructor
\* returned (it has no statement that throws).
RingNew(n) ==
    [requested |-> n, constructed |-> TRUE, cb |-> CbNew(n), written |-> << >>,
     count |-> 0, last |-> [kind |-> "none"]]

Init ==
    /\ under \in {"rt", "clock", "sys", "offline", "enhanced", "basic", "nlms", "dtd",
                 "ring", "track", "prs", "rec", "player"}
    /\ now = 0
    /\ hist = << >>
    /\ rt = IF under = "track" THEN RtNewSized(TrackBlockSize, 0) ELSE RtNew(0)
    /\ twin = RtNew(0)
    /\ shadow = [live |-> FALSE, dirty |-> FALSE, rt |-> RtNew(0)]
    /\ sys = SysNew(0)
    /\ out = [rt |-> NoBlock, twin |-> NoBlock, shadow |-> NoBlock, sys |-> NoBlock,
              wk |-> NoBlock]
    /\ did = NoBlock
    /\ holdBlocks = 0
    /\ offline = NoBlock
    /\ wk = WkNew(IF under = "basic" THEN "basic" ELSE "enhanced")
    /\ outbox = << >>
    /\ nlms = NlmsInit(0)
    /\ dtd \in {DtdNew([DtdConfigInit EXCEPT !.hangoverTime = h]) :
                   h \in IF under = "dtd" THEN HangoverTimes ELSE {HangoverTime}}
    /\ pushes = 0
    /\ quiet = FALSE
    /\ prs = PrsNew
    /\ rec = RecNew
    /\ player = PlayerNew
    /\ ring \in {RingNew(n) : n \in IF under = "ring" THEN RingSizes ELSE {RingSize}}
    /\ track \in {[pattern |-> p, blocks |-> 0, changed |-> FALSE, sinceChange |-> 0,
                     silent |-> 0, delayBefore |-> 0] :
                    p \in IF under = "track" THEN DOMAIN TrackPatterns ELSE {1}}

HoldBlocksAfter(stateAfter) == IF stateAfter = "hold" THEN holdBlocks + 1 ELSE 0

\* Whether a processor has left the state it was constructed in: adapted
\* weights, reference history, a detector away from idle and from the start
\* of its window.
RtDirty(r) ==
    /\ ~(\A i \in DOMAIN r.nlms.weights : r.nlms.weights[i] = 0)
    /\ ~(\A i \in DOMAIN r.nlms.delayLine : r.nlms.delayLine[i] = 0)
    /\ r.dtd.state # "idle"
    /\ r.dtd.bufferIndex # 0
    /\ r.dtd.farEndPower > FarOnThreshold

\* ------------------------------------------------------------------------
\* Actions
\* ------------------------------------------------------------------------
\* The blocks and clock steps a run draws from: the "clock" runs compare the
\* processor with its twin under every schedule of the wall clock, the other
\* runs stay within one metrics period.
RunBlockNames == IF under = "clock" THEN {"echo", "double"} ELSE BlockNames

\* The blocks given to the RealTimeProcessor: the input blocks, a block of
\* half the configured block size (the start of the echo block), and the
\* echo block with NaN as its second microphone sample or as its second
\* reference sample.
RtBlocks ==
    [b \in BlockNames \cup {"half", "nanMic", "nanRef"} |->
        CASE b = "half" -> Finite(Blk(<<2, -2>>), Blk(<<2, -2>>))
          [] b = "nanMic" -> Signal(Blk(<<2, 0, 0, 0>>), Blocks.echo.ref, {1}, {})
          [] b = "nanRef" -> Signal(Blocks.echo.mic, Blk(<<2, 0, 0, 0>>), {}, {1})
          [] OTHER -> Finite(Blocks[b].mic, Blocks[b].ref)]

RtBlockNames == IF under = "rt" THEN DOMAIN RtBlocks ELSE RunBlockNames
RunClockSteps == IF under = "clock" THEN ClockSteps ELSE {0}

\* RealTimeProcessor.processBlock on the next block.  In the "clock" runs the
\* twin gets the same block while its own wall clock stands still; after a
\* reset the shadow gets the same block at the same time.
RtBlock ==
    /\ under \in {"rt", "clock"}
    /\ Len(hist) < MaxSteps
    /\ \E b \in RtBlockNames, step \in RunClockSteps :
         \E t \in {now + step} :
         \E r \in {RtProcessBlock(rt, RtBlocks[b], t)} :
             /\ r.inRange
             /\ rt' = r.rt
             /\ IF under = "clock"
                THEN \E tw \in {RtProcessBlock(twin, RtBlocks[b], 0)} :
                        /\ tw.inRange
                        /\ twin' = tw.rt
                        /\ shadow' = shadow
                        /\ out' = [out EXCEPT !.rt = r.block, !.twin = tw.block]
                ELSE IF shadow.live
                THEN \E sh \in {RtProcessBlock(shadow.rt, RtBlocks[b], t)} :
                        /\ sh.inRange
                        /\ twin' = twin
                        /\ shadow' = [shadow EXCEPT !.rt = sh.rt]
                        /\ out' = [out EXCEPT !.rt = r.block, !.shadow = sh.block]
                ELSE /\ twin' = twin
                     /\ shadow' = shadow
                     /\ out' = [out EXCEPT !.rt = r.block]
             /\ did' = r.did
             /\ holdBlocks' = HoldBlocksAfter(r.rt.dtd.state)
             /\ hist' = Append(hist, b)
             /\ now' = t
    /\ UNCHANGED <<under, sys, offline, wk, outbox,
                 nlms, dtd,
                 pushes,
                 ring,
                 track,
                 quiet,
                 prs,
                 rec,
                 player>>

\* The delay-tracking run: processBlock on the next block of the stream, the
\* microphone being the reference delayed by the delay in force.  The delay
\* changes once, between two blocks, after at least one block.
TrackBlock ==
    /\ under = "track"
    /\ track.silent = 0
    /\ track.sinceChange < MaxTrackTail
    /\ \E change \in {c \in BOOLEAN : c => (~track.changed /\ track.blocks > 0)} :
         \E changed \in {track.changed \/ change} :
             /\ (~changed) => track.blocks < MaxTrackLead
             /\ \E r \in {RtProcessBlock(rt,
                               TrackSignal(track.pattern, track.blocks,
                                           IF changed THEN TrackDelayAfter
                                                      ELSE TrackDelayBefore),
                               now)} :
                    /\ r.inRange
                    /\ rt' = r.rt
                    /\ out' = [out EXCEPT !.rt = r.block]
                    /\ did' = r.did
                    /\ holdBlocks' = HoldBlocksAfter(r.rt.dtd.state)
             /\ track' = [track EXCEPT !.blocks = @ + 1,
                                       !.changed = changed,
                                       !.sinceChange = IF changed THEN @ + 1 ELSE 0]
    /\ UNCHANGED <<under, now, hist, twin, shadow, sys, offline, wk, outbox, nlms, dtd,
                   pushes, ring,
                 quiet,
                 prs,
                 rec,
                 player>>

\* The delay-tracking run once the stream has stopped: processBlock on a
\* block of silence in both the microphone and the reference.
TrackSilence ==
    /\ under = "track"
    /\ track.silent < MaxTrackSilent
    /\ \E r \in {RtProcessBlock(rt, Finite(Zeros(TrackBlockSize), Zeros(TrackBlockSize)),
                                 now)} :
         /\ r.inRange
         /\ rt' = r.rt
         /\ out' = [out EXCEPT !.rt = r.block]
         /\ did' = r.did
         /\ holdBlocks' = HoldBlocksAfter(r.rt.dtd.state)
    /\ track' = [track EXCEPT !.silent = @ + 1, !.delayBefore = rt.estimatedDelay]
    /\ UNCHANGED <<under, now, hist, twin, shadow, sys, offline, wk, outbox, nlms, dtd,
                   pushes, ring,
                 quiet,
                 prs,
                 rec,
                 player>>

\* startRecording(microphoneStream, systemAudioStream) up to its first await:
\* the entry test, the flag, and setupRawRecording, which runs through.
PrsStartRecordingCall ==
    /\ under = "prs"
    /\ \E k \in DOMAIN prs.starts :
         /\ prs.starts[k] = "none"
         /\ \A j \in DOMAIN prs.starts : j < k => prs.starts[j] # "none"
         /\ prs' = IF prs.isRecording
                   THEN [prs EXCEPT !.starts[k] = "threw", !.last = "threw"]
                   ELSE [prs EXCEPT !.isRecording = TRUE,
                                    !.rawRecordingProcessor = TRUE,
                                    !.starts[k] = "await1",
                                    !.last = "start"]
    /\ UNCHANGED <<under, now, hist, rt, twin, shadow, sys, out, did, holdBlocks,
                   offline, wk, outbox, nlms, dtd, pushes, ring, track, quiet,
                 rec,
                 player>>

\* A startRecording call resumed after setupRawRecording: it enters
\* setupProcessedRecording, which calls startProcessing; that throws when the
\* processor is processing (the catch of startRecording clears the flag),
\* and otherwise sets isProcessing and is awaited.
PrsSetupProcessedRecording ==
    /\ under = "prs"
    /\ \E k \in DOMAIN prs.starts :
         /\ prs.starts[k] = "await1"
         /\ prs' = IF prs.isProcessing
                   THEN [prs EXCEPT !.isRecording = FALSE,
                                    !.starts[k] = "failed",
                                    !.last = "failed"]
                   ELSE [prs EXCEPT !.isProcessing = TRUE,
                                    !.workletNode = TRUE,
                                    !.starts[k] = "await2",
                                    !.last = "processing"]
    /\ UNCHANGED <<under, now, hist, rt, twin, shadow, sys, out, did, holdBlocks,
                   offline, wk, outbox, nlms, dtd, pushes, ring, track, quiet,
                 rec,
                 player>>

\* setupProcessedRecording resumed after startProcessing: it creates the
\* recording node of the processed path and returns.
PrsProcessedPath ==
    /\ under = "prs"
    /\ \E k \in DOMAIN prs.starts :
         /\ prs.starts[k] = "await2"
         /\ prs' = [prs EXCEPT !.processedRecordingProcessor = TRUE,
                               !.starts[k] = "await3",
                               !.last = "path"]
    /\ UNCHANGED <<under, now, hist, rt, twin, shadow, sys, out, did, holdBlocks,
                   offline, wk, outbox, nlms, dtd, pushes, ring, track, quiet,
                 rec,
                 player>>

\* A startRecording call resumed after setupProcessedRecording: it sets the
\* auto-stop timeout, keeps its id, and returns.
PrsSetTimeout ==
    /\ under = "prs"
    /\ \E k \in DOMAIN prs.starts :
         /\ prs.starts[k] = "await3"
         /\ prs' = [prs EXCEPT !.timersSet = @ + 1,
                               !.timers = @ \cup {prs.timersSet + 1},
                               !.recordingTimeoutId = prs.timersSet + 1,
                               !.starts[k] = "done",
                               !.last = "started"]
    /\ UNCHANGED <<under, now, hist, rt, twin, shadow, sys, out, did, holdBlocks,
                   offline, wk, outbox, nlms, dtd, pushes, ring, track, quiet,
                 rec,
                 player>>

\* stopRecording(): it throws when no recording is in progress.
PrsStopRecordingCall ==
    /\ under = "prs"
    /\ prs' = IF ~prs.isRecording
              THEN [prs EXCEPT !.last = "stopThrew"]
              ELSE [PrsStopRecording(prs) EXCEPT !.last = "stopped"]
    /\ UNCHANGED <<under, now, hist, rt, twin, shadow, sys, out, did, holdBlocks,
                   offline, wk, outbox, nlms, dtd, pushes, ring, track, quiet,
                 rec,
                 player>>

\* reset(): stopRecording() when recording, then RealTimeProcessor.reset().
PrsResetCall ==
    /\ under = "prs"
    /\ prs' = [(IF prs.isRecording THEN PrsStopRecording(prs) ELSE prs)
                 EXCEPT !.last = "reset"]
    /\ rt' = RtReset(rt, now)
    /\ UNCHANGED <<under, now, hist, twin, shadow, sys, out, did, holdBlocks,
                   offline, wk, outbox, nlms, dtd, pushes, ring, track, quiet,
                 rec,
                 player>>

\* An auto-stop timeout fires: stopRecording() when recording.
PrsAutoStop ==
    /\ under = "prs"
    /\ \E id \in prs.timers :
         \E p \in {[prs EXCEPT !.timers = @ \ {id}]} :
             prs' = [(IF p.isRecording THEN PrsStopRecording(p) ELSE p)
                       EXCEPT !.last = "timeout"]
    /\ UNCHANGED <<under, now, hist, rt, twin, shadow, sys, out, did, holdBlocks,
                   offline, wk, outbox, nlms, dtd, pushes, ring, track, quiet,
                 rec,
                 player>>

\* AudioRecorder.startRecording(): it throws when a recording is in
\* progress, and otherwise starts one and sets the auto-stop timeout.
RecStartRecordingCall ==
    /\ under = "rec"
    /\ rec.recording < MaxRecordings
    /\ rec' = IF rec.isRecording
              THEN [rec EXCEPT !.last = [kind |-> "startThrew"]]
              ELSE [rec EXCEPT !.isRecording = TRUE,
                               !.recording = @ + 1,
                               !.startedAt = rec.time,
                               !.timers = @ \cup {[due |-> rec.time + RecMaxDuration,
                                                   setBy |-> rec.recording + 1]},
                               !.last = [kind |-> "started"]]
    /\ UNCHANGED <<under, now, hist, rt, twin, shadow, sys, out, did, holdBlocks,
                   offline, wk, outbox, nlms, dtd, pushes, ring, track, quiet, prs,
                 player>>

\* AudioRecorder.stopRecording(): it throws when no recording is in progress.
RecStopRecordingCall ==
    /\ under = "rec"
    /\ rec' = IF ~rec.isRecording
              THEN [rec EXCEPT !.last = [kind |-> "stopThrew"]]
              ELSE [RecStopRecording(rec) EXCEPT !.last = [kind |-> "stopped"]]
    /\ UNCHANGED <<under, now, hist, rt, twin, shadow, sys, out, did, holdBlocks,
                   offline, wk, outbox, nlms, dtd, pushes, ring, track, quiet, prs,
                 player>>

\* The callback of a timeout that is due: stopRecording() when a recording
\* is in progress.  Of two timeouts the one due first fires first, and of
\* two due together the one set first.
RecAutoStop ==
    /\ under = "rec"
    /\ \E t \in rec.timers :
         /\ t.due <= rec.time
         /\ \A u \in rec.timers :
              u.due > t.due \/ (u.due = t.due /\ u.setBy >= t.setBy)
         /\ \E r \in {[rec EXCEPT !.timers = @ \ {t}]} :
              rec' = IF r.isRecording
                     THEN [RecStopRecording(r) EXCEPT
                             !.last = [kind |-> "autoStopped", setBy |-> t.setBy,
                                       recording |-> r.recording,
                                       ran |-> r.time - r.startedAt]]
                     ELSE [r EXCEPT !.last = [kind |-> "timeout"]]
    /\ UNCHANGED <<under, now, hist, rt, twin, shadow, sys, out, did, holdBlocks,
                   offline, wk, outbox, nlms, dtd, pushes, ring, track, quiet, prs,
                 player>>

\* Time passes, once the timeouts that are due have fired.
RecTick ==
    /\ under = "rec"
    /\ rec.time < MaxRecTime
    /\ \A t \in rec.timers : t.due > rec.time
    /\ rec' = [rec EXCEPT !.time = @ + 1, !.last = [kind |-> "tick"]]
    /\ UNCHANGED <<under, now, hist, rt, twin, shadow, sys, out, did, holdBlocks,
                   offline, wk, outbox, nlms, dtd, pushes, ring, track, quiet, prs,
                 player>>

\* AudioPlayer.playAudio(audioData).
PlayerPlayAudioCall ==
    /\ under = "player"
    /\ Len(player.sources) < MaxSources
    /\ player' = PlayerPlayAudio(player)
    /\ UNCHANGED <<under, now, hist, rt, twin, shadow, sys, out, did, holdBlocks,
                   offline, wk, outbox, nlms, dtd, pushes, ring, track, quiet, prs,
                   rec>>

\* AudioPlayer.stopPlayback().
PlayerStopPlaybackCall ==
    /\ under = "player"
    /\ player' = PlayerStopPlayback(player)
    /\ UNCHANGED <<under, now, hist, rt, twin, shadow, sys, out, did, holdBlocks,
                   offline, wk, outbox, nlms, dtd, pushes, ring, track, quiet, prs,
                   rec>>

\* A playing source reaches the end of its buffer.
PlayerSourceFinishes ==
    /\ under = "player"
    /\ \E k \in DOMAIN player.sources :
         /\ player.sources[k] = "playing"
         /\ player' = [player EXCEPT !.sources[k] = "finished"]
    /\ UNCHANGED <<under, now, hist, rt, twin, shadow, sys, out, did, holdBlocks,
                   offline, wk, outbox, nlms, dtd, pushes, ring, track, quiet, prs,
                   rec>>

\* The 'ended' event of a source that has finished or been stopped is
\* delivered: its onended handler runs.
PlayerEnded ==
    /\ under = "player"
    /\ \E k \in DOMAIN player.sources :
         /\ player.sources[k] = "finished"
         /\ player' = [PlayerOnEnded(player) EXCEPT !.sources[k] = "done"]
    /\ UNCHANGED <<under, now, hist, rt, twin, shadow, sys, out, did, holdBlocks,
                   offline, wk, outbox, nlms, dtd, pushes, ring, track, quiet, prs,
                   rec>>

\* RealTimeProcessor.reset between two blocks.
RtResetCall ==
    /\ under = "rt"
    /\ Len(hist) < MaxSteps
    /\ \E step \in RunClockSteps :
         LET t == now + step
         IN  /\ rt' = RtReset(rt, t)
             /\ shadow' = [live |-> TRUE, dirty |-> RtDirty(rt), rt |-> RtNew(t)]
             /\ now' = t
    /\ out' = [out EXCEPT !.rt = NoBlock, !.shadow = NoBlock]
    /\ did' = [kind |-> "reset"]
    /\ holdBlocks' = 0
    /\ hist' = Append(hist, "reset")
    /\ UNCHANGED <<under, twin, sys, offline, wk, outbox,
                 nlms, dtd,
                 pushes,
                 ring,
                 track,
                 quiet,
                 prs,
                 rec,
                 player>>

\* EchoCancellationSystem.processBlock on the next block.
SysBlock ==
    /\ under = "sys"
    /\ Len(hist) < MaxSteps
    /\ \E b \in RunBlockNames, step \in RunClockSteps :
         \E t \in {now + step} :
         \E r \in {SysProcessBlock(sys, Blocks[b].mic, Blocks[b].ref, t)} :
             /\ r.inRange
             /\ sys' = r.sys
             /\ out' = [out EXCEPT !.sys = [processedAudio |-> r.processedAudio]]
             /\ did' = r.did
             /\ holdBlocks' = HoldBlocksAfter(r.sys.dtd.state)
             /\ hist' = Append(hist, b)
             /\ now' = t
    /\ UNCHANGED <<under, rt, twin, shadow, offline, wk, outbox,
                 nlms, dtd,
                 pushes,
                 ring,
                 track,
                 quiet,
                 prs,
                 rec,
                 player>>

\* AudioPlayer.processRecordedAudio on a recording of n samples that repeats
\* one of the blocks.
OfflineCall ==
    /\ under = "offline"
    /\ \E b \in BlockNames, n \in 0..MaxRecordingLength :
         LET mixed == [i \in 0..(n - 1) |-> Blocks[b].mic[i % BlockSize]]
             cleanSystem == [i \in 0..(n - 1) |-> Blocks[b].ref[i % BlockSize]]
         IN  \E r \in {ProcessRecordedAudio(mixed, cleanSystem, now)} :
             /\ r.inRange
             /\ offline' = [kind |-> "offline", original |-> mixed,
                            processed |-> r.processedAudio]
    /\ UNCHANGED <<under, now, hist, rt, twin, shadow, sys, out, did, holdBlocks, wk, outbox,
                 nlms, dtd,
                 pushes,
                 ring,
                 track,
                 quiet,
                 prs,
                 rec,
                 player>>

\* The worklet handles a control message.
WkMessage ==
    /\ under \in {"enhanced", "basic"}
    /\ Len(hist) < MaxSteps
    /\ \E type \in MessageTypes :
         \E r \in {WkHandleMessage(wk, type)} :
             /\ wk' = r.wk
             /\ outbox' = outbox \o r.posted
             /\ did' = [kind |-> "message", type |-> type]
             /\ pushes' = IF type = "reset" THEN 0 ELSE pushes
    /\ hist' = Append(hist, "message")
    /\ UNCHANGED <<under, now, rt, twin, shadow, sys, out, holdBlocks, offline,
                 nlms, dtd,
                 ring,
                 track,
                 quiet,
                 prs,
                 rec,
                 player>>

\* The worklet's process() is called with a frame.
WkFrame ==
    /\ under \in {"enhanced", "basic"}
    /\ Len(hist) < MaxSteps
    /\ \E f \in Frames :
         LET frame == [shape |-> f.shape, mic |-> Blocks[f.block].mic,
                       sys |-> Blocks[f.block].ref]
         IN  \E r \in {WkProcess(wk, frame)} :
             /\ r.inRange
             /\ wk' = r.wk
             /\ outbox' = outbox \o r.posted
             /\ pushes' = pushes + Len(r.posted)
             /\ out' = [out EXCEPT !.wk = [kind |-> "frame", shape |-> f.shape,
                                           mic |-> frame.mic, output |-> r.output,
                                           wasProcessing |-> wk.isProcessing]]
    /\ did' = [kind |-> "frame"]
    /\ hist' = Append(hist, "frame")
    /\ UNCHANGED <<under, now, rt, twin, shadow, sys, holdBlocks, offline,
                 nlms, dtd,
                 ring,
                 track,
                 quiet,
                 prs,
                 rec,
                 player>>

\* NLMSProcessor.process on the next signal, with either value of
\* enableAdaptation.
NlmsProcessCall ==
    /\ under = "nlms"
    /\ Len(hist) < MaxCoreSteps
    /\ \E s \in DOMAIN Signals, enableAdaptation \in BOOLEAN :
         \E r \in {NlmsProcessSignals(nlms, Signals[s], enableAdaptation, now)} :
             /\ r.inRange
             /\ nlms' = r.nlms
             /\ did' = [kind |-> "process", signal |-> s, config |-> nlms.config,
                        enableAdaptation |-> enableAdaptation,
                        weightsBefore |-> nlms.weights,
                        powerBefore |-> nlms.powerEstimate,
                        nanBefore |-> nlms.nan,
                        output |-> r.output, outputNaN |-> r.outputNaN]
             /\ hist' = Append(hist, s)
    /\ UNCHANGED <<under, now, rt, twin, shadow, sys, out, holdBlocks, offline, wk,
                   outbox, dtd,
                 pushes,
                 ring,
                 track,
                 quiet,
                 prs,
                 rec,
                 player>>

\* NLMSProcessor.updateConfig between two process calls.
NlmsUpdateConfigCall ==
    /\ under = "nlms"
    /\ Len(hist) < MaxCoreSteps
    /\ \E newConfig \in NlmsConfigUpdates :
         /\ nlms' = NlmsUpdateConfig(nlms, newConfig)
         /\ did' = [kind |-> "updateConfig", newConfig |-> newConfig]
    /\ hist' = Append(hist, "updateConfig")
    /\ UNCHANGED <<under, now, rt, twin, shadow, sys, out, holdBlocks, offline, wk,
                   outbox, dtd,
                 pushes,
                 ring,
                 track,
                 quiet,
                 prs,
                 rec,
                 player>>

\* NLMSProcessor.reset between two process calls.
NlmsResetCall ==
    /\ under = "nlms"
    /\ Len(hist) < MaxCoreSteps
    /\ nlms' = NlmsReset(nlms, now)
    /\ did' = [kind |-> "reset"]
    /\ hist' = Append(hist, "reset")
    /\ UNCHANGED <<under, now, rt, twin, shadow, sys, out, holdBlocks, offline, wk,
                   outbox, dtd,
                 pushes,
                 ring,
                 track,
                 quiet,
                 prs,
                 rec,
                 player>>

\* DoubleTalkDetector.process on the next block.
DtdProcessCall ==
    /\ under = "dtd"
    /\ ~quiet
    /\ Len(hist) < MaxCoreSteps
    /\ \E b \in BlockNames :
         \E d1 \in {DtdUpdateCorrelationBuffers(
                       DtdUpdatePowerEstimates(dtd, Finite(Blocks[b].mic, Blocks[b].ref)),
                       Finite(Blocks[b].mic, Blocks[b].ref))} :
         \E d \in {DtdProcess(dtd, Blocks[b].mic, Blocks[b].ref)} :
             /\ dtd' = d
             /\ did' = [kind |-> "detect", config |-> dtd.config,
                        isDoubleTalk |-> DtdDetectDoubleTalk(d1),
                        farEndPower |-> d1.farEndPower,
                        stateBefore |-> dtd.state,
                        counterBefore |-> dtd.hangoverCounter,
                        stateAfter |-> d.state,
                        counterAfter |-> d.hangoverCounter,
                        returned |-> DtdAdaptFlag(d)]
             /\ hist' = Append(hist, b)
    /\ UNCHANGED <<under, now, rt, twin, shadow, sys, out, holdBlocks, offline, wk,
                   outbox, nlms,
                 pushes,
                 ring,
                 track,
                 quiet,
                 prs,
                 rec,
                 player>>

\* DoubleTalkDetector.process on a block of silence in both signals, once the
\* input has gone silent for good: every later block is silent too.  The
\* input goes silent after at most MaxQuietLead other calls.
DtdSilentCall ==
    /\ under = "dtd"
    /\ quiet \/ Len(hist) <= MaxQuietLead
    /\ \E d1 \in {DtdUpdateCorrelationBuffers(
                   DtdUpdatePowerEstimates(dtd, Finite(Blocks.silence.mic,
                                                       Blocks.silence.ref)),
                   Finite(Blocks.silence.mic, Blocks.silence.ref))} :
       \E d \in {DtdProcess(dtd, Blocks.silence.mic, Blocks.silence.ref)} :
           /\ dtd' = d
           /\ did' = [kind |-> "detect", config |-> dtd.config,
                      isDoubleTalk |-> DtdDetectDoubleTalk(d1),
                      farEndPower |-> d1.farEndPower,
                      stateBefore |-> dtd.state,
                      counterBefore |-> dtd.hangoverCounter,
                      stateAfter |-> d.state,
                      counterAfter |-> d.hangoverCounter,
                      returned |-> DtdAdaptFlag(d)]
    /\ quiet' = TRUE
    /\ UNCHANGED <<under, now, hist, rt, twin, shadow, sys, out, holdBlocks, offline, wk,
                   outbox, nlms, pushes, ring, track,
                 prs,
                 rec,
                 player>>

\* DoubleTalkDetector.updateConfig between two process calls.
DtdUpdateConfigCall ==
    /\ under = "dtd"
    /\ ~quiet
    /\ Len(hist) < MaxCoreSteps
    /\ \E newConfig \in DtdConfigUpdates :
         /\ dtd' = DtdUpdateConfig(dtd, newConfig)
         /\ did' = [kind |-> "updateConfig", newConfig |-> newConfig]
    /\ hist' = Append(hist, "updateConfig")
    /\ UNCHANGED <<under, now, rt, twin, shadow, sys, out, holdBlocks, offline, wk,
                   outbox, nlms,
                 pushes,
                 ring,
                 track,
                 quiet,
                 prs,
                 rec,
                 player>>

\* DoubleTalkDetector.reset between two process calls.
DtdResetCall ==
    /\ under = "dtd"
    /\ ~quiet
    /\ Len(hist) < MaxCoreSteps
    /\ dtd' = DtdReset(dtd)
    /\ did' = [kind |-> "reset"]
    /\ hist' = Append(hist, "reset")
    /\ UNCHANGED <<under, now, rt, twin, shadow, sys, out, holdBlocks, offline, wk,
                   outbox, nlms,
                 pushes,
                 ring,
                 track,
                 quiet,
                 prs,
                 rec,
                 player>>

\* The samples numbered count + 1 .. count + n, as a block.
RingSamples(n) == [i \in 0..(n - 1) |-> ring.count + 1 + i]

\* CircularBuffer.write of the next sample.
RingWrite ==
    /\ under = "ring"
    /\ Len(hist) < MaxCoreSteps
    /\ ring' = [ring EXCEPT !.cb = CbWrite(ring.cb, ring.count + 1),
                            !.written = Append(ring.written, ring.count + 1),
                            !.count = ring.count + 1,
                            !.last = [kind |-> "write"]]
    /\ hist' = Append(hist, "write")
    /\ UNCHANGED <<under, now, rt, twin, shadow, sys, out, did, holdBlocks, offline, wk,
                   outbox, nlms, dtd, pushes,
                 track,
                 quiet,
                 prs,
                 rec,
                 player>>

\* CircularBuffer.writeBlock of the next RingBlockLength samples.
RingWriteBlock ==
    /\ under = "ring"
    /\ Len(hist) < MaxCoreSteps
    /\ \E samples \in {RingSamples(RingBlockLength)} :
         ring' = [ring EXCEPT !.cb = CbWriteBlock(ring.cb, samples),
                              !.written = ring.written
                                  \o [k \in 1..RingBlockLength |-> samples[k - 1]],
                              !.count = ring.count + RingBlockLength,
                              !.last = [kind |-> "writeBlock", samples |-> samples]]
    /\ hist' = Append(hist, "writeBlock")
    /\ UNCHANGED <<under, now, rt, twin, shadow, sys, out, did, holdBlocks, offline, wk,
                   outbox, nlms, dtd, pushes,
                 track,
                 quiet,
                 prs,
                 rec,
                 player>>

\* CircularBuffer.read(delay), with delays up to past the capacity.  The
\* method has no statement that throws: error is always "none".
RingRead ==
    /\ under = "ring"
    /\ Len(hist) < MaxCoreSteps
    /\ \E delay \in 0..(ring.cb.size + 1) :
         ring' = [ring EXCEPT !.last = [kind |-> "read", delay |-> delay, error |-> "none",
                                        value |-> CbRead(ring.cb, delay)]]
    /\ hist' = Append(hist, "read")
    /\ UNCHANGED <<under, now, rt, twin, shadow, sys, out, did, holdBlocks, offline, wk,
                   outbox, nlms, dtd, pushes,
                 track,
                 quiet,
                 prs,
                 rec,
                 player>>

\* CircularBuffer.readBlock(output, delay) into an array of RingBlockLength
\* slots.  The method has no statement that throws: error is always "none".
RingReadBlock ==
    /\ under = "ring"
    /\ Len(hist) < MaxCoreSteps
    /\ \E delay \in 0..ring.cb.size :
         ring' = [ring EXCEPT !.last = [kind |-> "readBlock", delay |-> delay,
                                        error |-> "none",
                                        output |-> CbReadBlock(ring.cb, RingBlockLength,
                                                               delay)]]
    /\ hist' = Append(hist, "readBlock")
    /\ UNCHANGED <<under, now, rt, twin, shadow, sys, out, did, holdBlocks, offline, wk,
                   outbox, nlms, dtd, pushes,
                 track,
                 quiet,
                 prs,
                 rec,
                 player>>

\* CircularBuffer.clear.
RingClear ==
    /\ under = "ring"
    /\ Len(hist) < MaxCoreSteps
    /\ ring' = [ring EXCEPT !.cb = CbClear(ring.cb), !.written = << >>,
                            !.last = [kind |-> "clear"]]
    /\ hist' = Append(hist, "clear")
    /\ UNCHANGED <<under, now, rt, twin, shadow, sys, out, did, holdBlocks, offline, wk,
                   outbox, nlms, dtd, pushes,
                 track,
                 quiet,
                 prs,
                 rec,
                 player>>

Next ==
    \/ RingWrite \/ RingWriteBlock \/ RingRead \/ RingReadBlock \/ RingClear
    \/ RtBlock \/ RtResetCall \/ SysBlock \/ OfflineCall \/ WkMessage \/ WkFrame
    \/ NlmsProcessCall \/ NlmsUpdateConfigCall \/ NlmsResetCall
    \/ DtdProcessCall \/ DtdUpdateConfigCall \/ DtdResetCall
    \/ TrackBlock \/ TrackSilence
    \/ DtdSilentCall
    \/ PrsStartRecordingCall \/ PrsSetupProcessedRecording \/ PrsProcessedPath
    \/ PrsSetTimeout \/ PrsStopRecordingCall \/ PrsResetCall \/ PrsAutoStop
    \/ RecStartRecordingCall \/ RecStopRecordingCall \/ RecAutoStop \/ RecTick
    \/ PlayerPlayAudioCall \/ PlayerStopPlaybackCall \/ PlayerSourceFinishes
    \/ PlayerEnded

Spec == Init /\ [][Next]_vars

\* The audio callback keeps delivering blocks: a detector whose input has
\* gone silent is given silent block after silent block.
LiveSpec == Init /\ [][Next]_vars /\ WF_vars(DtdSilentCall)

\* ------------------------------------------------------------------------
\* Properties
\* ------------------------------------------------------------------------
IsBlock == did.kind = "block"

Silent(b) == \A i \in DOMAIN b : b[i] = 0

\* mic block b in the units of the clean output.
Scaled(b) == [i \in DOMAIN b |-> b[i] * WeightScale]

\* C1: Double-talk freeze.  On every block for which the smoothed far-end
\* power is above 1e-6 and the double-talk decision is true with the power test
\* satisfied, the NLMS weights are the same after the block as before it,
\* whatever state and hangover counter the detector started the block in.
C1_DoubleTalkFreeze ==
    (IsBlock /\ did.farEndPower > FarOnThreshold /\ did.isDoubleTalk /\ did.powerTest)
        => did.weightsAfter = did.weightsBefore

\* C2: The flag DoubleTalkDetector.process returns is true exactly when the
\* detector state after the call is idle or single_talk, and the filter is
\* run with exactly that flag on the same block.
C2_AdaptFlag ==
    IsBlock =>
        /\ did.returned = (did.stateAfter \in {"idle", "single_talk"})
        /\ did.nlmsAdapt = did.returned

\* C2 witness: the orchestrator ran a block that left the detector in hold
\* and the filter was run with adaptation off.
C2_Witness ==
    /\ under = "sys" /\ IsBlock
    /\ did.stateAfter = "hold" /\ ~did.returned /\ ~did.nlmsAdapt
    /\ did.stateBefore = "double_talk"

\* C3: Hangover honored.  The detector stays in hold for a number of blocks B
\* with B * blockSize within blockSize of the hangover H, the counter being
\* consumed at blockSize samples per block.
C3_HangoverHonored ==
    /\ holdBlocks * BlockSize <= HangoverTime + BlockSize
    /\ (IsBlock /\ did.stateBefore = "hold")
          => did.counterAfter \in {did.counterBefore - BlockSize, 0}

\* C4: While the worklet processor is stopped, every process() call writes
\* exactly the microphone block to the output block.
C4_StoppedPassThrough ==
    (out.wk.kind = "frame" /\ ~out.wk.wasProcessing /\ out.wk.shape # "none")
        => out.wk.output = Scaled(out.wk.mic)

C6_SilenceInSilenceOut ==
    (IsBlock /\ Silent(did.mic) /\ Silent(did.ref))
        => Silent(did.output) /\ did.weightsAfter = did.weightsBefore

\* The calls so far are blocks whose ref is all zero.
OnlyNearEnd == \A k \in DOMAIN hist : hist[k] \in BlockNames /\ Silent(Blocks[hist[k]].ref)

\* C7: Pure near-end.  From a fresh RealTimeProcessor, over blocks whose ref
\* is all zero, every clean block equals the mic block sample by sample, the
\* weights stay unchanged and the detector stays idle.
C7_PureNearEnd ==
    (under = "rt" /\ IsBlock /\ OnlyNearEnd)
        => /\ out.rt.cleanMicrophone = Scaled(did.mic)
           /\ did.weightsAfter = did.weightsBefore
           /\ did.stateAfter = "idle"

\* |w - target| <= tolerance, weights in units of 1/WeightScale.
Within(w, targetNum, targetDen, tolNum, tolDen) ==
    Abs(w * targetDen * tolDen - targetNum * WeightScale * tolDen)
        <= tolNum * WeightScale * targetDen

\* C8: Impulse echo.  From a fresh canceller, ref an impulse followed by zeros
\* and mic the impulse delayed by one sample and scaled by 0.5: adaptation is
\* enabled on the block carrying the echo, and after 4 blocks the weight at
\* the delay is within 0.05 of 0.5 and every other weight is below 0.05 in
\* magnitude.
C8_ImpulseEcho ==
    /\ (under = "sys" /\ hist = <<"impulse">>) => did.nlmsAdapt
    /\ (under = "sys" /\ hist = <<"impulse", "silence", "silence", "silence">>)
          => \A i \in DOMAIN sys.nlms.weights :
                IF i = 1 THEN Within(sys.nlms.weights[i], 1, 2, 5, 100)
                ELSE Within(sys.nlms.weights[i], 0, 1, 5, 100)
                     /\ ~Within(sys.nlms.weights[i], 5, 100, 0, 1)
                     /\ ~Within(sys.nlms.weights[i], -5, 100, 0, 1)

\* C9: Determinism.  Two RealTimeProcessor instances started in the same
\* state and fed the same blocks return the same clean blocks, adaptation
\* decisions and delay estimates, and hold the same filter and detector
\* state, whatever the wall-clock times of the calls.
C9_Deterministic ==
    (under = "clock" /\ IsBlock)
        => /\ out.rt.cleanMicrophone = out.twin.cleanMicrophone
           /\ out.rt.cleanSystemAudio = out.twin.cleanSystemAudio
           /\ out.rt.adaptationEnabled = out.twin.adaptationEnabled
           /\ out.rt.doubleTalkState = out.twin.doubleTalkState
           /\ out.rt.estimatedDelay = out.twin.estimatedDelay
           /\ rt.nlms.weights = twin.nlms.weights
           /\ rt.nlms.delayLine = twin.nlms.delayLine
           /\ rt.nlms.powerEstimate = twin.nlms.powerEstimate
           /\ rt.dtd = twin.dtd

\* C9 witness: the two instances saw different wall clocks (one refreshed
\* its metrics, the other never did) while the filter was adapted.
C9_Witness ==
    /\ under = "clock" /\ IsBlock
    /\ rt.nlms.lastUpdateTime # twin.nlms.lastUpdateTime
    /\ out.rt.timestamp # out.twin.timestamp
    /\ ~Silent(rt.nlms.weights)
    /\ ~Silent(out.rt.cleanMicrophone)
    /\ out.rt.cleanMicrophone = out.twin.cleanMicrophone

\* C10: Reset.  After reset() every block returns the clean block, the
\* adaptation decision and the detector state a freshly constructed
\* RealTimeProcessor returns on the same blocks; and a reset message leaves
\* the worklet processor as constructed, its run state and debug-log counter
\* apart.
C10_ResetIsFresh ==
    /\ (under = "rt" /\ shadow.live /\ IsBlock)
          => /\ out.rt = out.shadow
             /\ rt.dtd.state = shadow.rt.dtd.state
             /\ rt.dtd.hangoverCounter = shadow.rt.dtd.hangoverCounter
             /\ rt.nlms.weights = shadow.rt.nlms.weights
    /\ (did.kind = "message" /\ did.type = "reset")
          => wk = [WkNew(wk.variant) EXCEPT !.isProcessing = wk.isProcessing,
                                             !.debugBlockCount = wk.debugBlockCount]

\* C10 witness: the processor was reset out of a state with adapted weights
\* and a detector away from idle, with the detector's write position off the
\* start of its window, and has processed a non-silent block since.
C10_Witness ==
    /\ under = "rt" /\ shadow.live /\ shadow.dirty /\ IsBlock
    /\ rt.dtd.bufferIndex # shadow.rt.dtd.bufferIndex
    /\ ~Silent(out.rt.cleanMicrophone)
    /\ ~Silent(rt.nlms.weights)
    /\ out.rt = out.shadow

\* C11: SetConfig takes effect at the next block.  A config update handled
\* before a block changes the parameters that block and all later blocks are
\* processed with: after updateConfig the filter and the detector hold the
\* given values, process calls leave them in place, and after a setConfig
\* message the worklet processor's parameters are the ones the message gave.
C11_SetConfigTakesEffect ==
    /\ (under = "nlms" /\ did.kind = "updateConfig")
          => \A k \in DOMAIN did.newConfig : nlms.config[k] = did.newConfig[k]
    /\ (under = "nlms" /\ did.kind = "process") => nlms.config = did.config
    /\ (under = "dtd" /\ did.kind = "updateConfig")
          => \A k \in DOMAIN did.newConfig : dtd.config[k] = did.newConfig[k]
    /\ (under = "dtd" /\ did.kind = "detect") => dtd.config = did.config
    /\ (did.kind = "message" /\ did.type = "setConfig")
          => \A k \in DOMAIN WkConfigUpdate : WkParameters(wk)[k] = WkConfigUpdate[k]

\* C12: Metrics cadence.  After S samples have been processed since
\* construction or the last reset, process() has pushed floor(S / interval)
\* metrics messages, replies to getMetrics not counted.
C12_MetricsCadence ==
    under \in {"enhanced", "basic"} => pushes = wk.processedSamples \div WkMetricsInterval

\* The messages posted by the step: what the outbox holds beyond its old length.
Posted == SubSeq(outbox', Len(outbox) + 1, Len(outbox'))

\* C13: Control protocol.  Each start posts exactly one started and leaves the
\* processor processing, each stop posts exactly one stopped and leaves it
\* stopped, each getMetrics posts exactly one metrics message carrying the
\* isProcessing and processedSamples of the processor at that moment, reset
\* posts nothing and leaves isProcessing as it was, and what is posted is
\* appended to what was posted before.
C13_ControlProtocol ==
    [][did'.kind = "message" =>
          /\ outbox' = outbox \o Posted
          /\ did'.type = "start"
                => Posted = <<[type |-> "started"]>> /\ wk'.isProcessing
          /\ did'.type = "stop"
                => Posted = <<[type |-> "stopped"]>> /\ ~wk'.isProcessing
          /\ did'.type = "getMetrics"
                => /\ Len(Posted) = 1
                   /\ Posted[1].type = "metrics"
                   /\ Posted[1].isProcessing = wk.isProcessing
                   /\ Posted[1].processedSamples = wk.processedSamples
                   /\ wk' = wk
          /\ did'.type = "reset"
                => Posted = << >> /\ wk'.isProcessing = wk.isProcessing]_vars

\* C13 witness: start, a processed block, reset and getMetrics were handled in
\* that order; the outbox holds started and then the metrics of the running,
\* reset processor.
C13_Witness ==
    /\ under = "enhanced"
    /\ Len(hist) = 4 /\ did.kind = "message" /\ did.type = "getMetrics"
    /\ wk.isProcessing /\ wk.debugBlockCount = 1
    /\ Len(outbox) = 2
    /\ outbox[1] = [type |-> "started"]
    /\ outbox[2].type = "metrics" /\ outbox[2].isProcessing
    /\ outbox[2].processedSamples = 0

\* The sample written d samples ago (d = 0 the most recent).
WrittenAgo(d) == ring.written[Len(ring.written) - d]

\* d is smaller than the number of samples written since clear and than the
\* capacity.
Readable(d) == d < Len(ring.written) /\ d < ring.cb.size

\* C14: Delay-line read at delay.  After any sequence of write, writeBlock
\* and clear calls, read(d) returns the sample written d samples ago and
\* readBlock(dst, k) sets dst[i] to the sample written k + i samples ago,
\* wherever k + i is below the number of samples written since clear and
\* below the capacity; a writeBlock followed by readBlock at offset 0 gives
\* the block in time-reversed order.
C14_ReadAtDelay ==
    /\ (ring.last.kind = "read" /\ Readable(ring.last.delay))
          => ring.last.value = WrittenAgo(ring.last.delay)
    /\ ring.last.kind = "readBlock"
          => \A i \in DOMAIN ring.last.output :
                Readable(ring.last.delay + i)
                    => ring.last.output[i] = WrittenAgo(ring.last.delay + i)

\* C14 witness: two blocks were written, the second wrapping the ring, and
\* readBlock at offset 0 returned the second block in time-reversed order.
C14_Witness ==
    /\ hist = <<"writeBlock", "writeBlock", "readBlock">>
    /\ ring.cb.size < Len(ring.written)
    /\ ring.last.kind = "readBlock" /\ ring.last.delay = 0
    /\ ring.last.output = [i \in 0..(RingBlockLength - 1) |-> ring.count - i]

\* C18: Delay-line range check.  A read or readBlock whose requested offset
\* is at or above the capacity fails with OutOfRange, and constructing a
\* buffer of capacity 0 fails.
C18_OutOfRange ==
    /\ (ring.last.kind \in {"read", "readBlock"} /\ ring.last.delay >= ring.cb.size)
          => ring.last.error = "OutOfRange"
    /\ ring.requested = 0 => ~ring.constructed

\* C15: Sizes are fixed at construction.  After any sequence of process,
\* reset and updateConfig calls the filter length the NLMS loops run over is
\* the length of the weights and delay-line arrays allocated at construction,
\* and the window size the detector runs over is the length of its window
\* buffers, so that every index the loops use is inside the arrays.
C15_SizesFixed ==
    /\ under = "nlms"
          => /\ nlms.config.filterLength = FilterLength
             /\ BlockLen(nlms.weights) = FilterLength
             /\ BlockLen(nlms.delayLine) = FilterLength
    /\ under = "dtd"
          => /\ dtd.config.windowSize = WindowSize
             /\ BlockLen(dtd.nearEndBuffer) = WindowSize
             /\ BlockLen(dtd.farEndBuffer) = WindowSize

\* The positions of the signal at which mic or ref holds NaN.
NonFiniteAt(sig) == sig.nanMic \cup sig.nanRef

\* C16: Non-finite guard.  When a block holds a NaN sample in mic or ref, the
\* output samples at those positions are zero (and numbers), the weights are
\* not changed by that block, and the RealTimeProcessor runs the block with
\* adaptation off and returns a clean block of numbers.
C16_NonFiniteGuard ==
    /\ (under = "nlms" /\ did.kind = "process" /\ NonFiniteAt(Signals[did.signal]) # {})
          => /\ \A i \in NonFiniteAt(Signals[did.signal]) :
                   i \notin did.outputNaN /\ did.output[i] = 0
             /\ nlms.weights = did.weightsBefore
             /\ nlms.nan.weights = did.nanBefore.weights
    /\ (under = "rt" /\ IsBlock /\ did.nonFinite # {})
          => /\ ~did.nlmsAdapt /\ ~out.rt.adaptationEnabled
             /\ did.weightsAfter = did.weightsBefore
             /\ out.rt.cleanMicrophoneNaN = {}

\* C17: Block size mismatch.  A block whose mic and ref lengths differ, or
\* whose length is not the configured block size, is rejected: what is
\* returned for it is a block of the configured size, or of the reference's
\* size for the filter used on its own, that is all zero.
C17_BlockSizeMismatch ==
    /\ (under = "rt" /\ IsBlock /\ BlockLen(did.mic) # BlockSize)
          => out.rt.cleanMicrophone = Zeros(BlockSize)
    /\ (under = "nlms" /\ did.kind = "process"
          /\ BlockLen(Signals[did.signal].mic) # BlockLen(Signals[did.signal].ref))
          => did.output = Zeros(BlockLen(Signals[did.signal].ref)) /\ did.outputNaN = {}

\* C19: ERLE clamp.  The ERLE reported in the metrics of every processed
\* block is a number in [0, 60] dB, for all-zero blocks and blocks holding
\* non-finite samples included; the average ERLE the worklet processor
\* reports is in the same interval.
C19_ErleClamp ==
    /\ (under = "rt" /\ IsBlock)
          => ~out.rt.erleNaN /\ RtErleMin <= out.rt.erle /\ out.rt.erle <= RtErleMax
    /\ under = "enhanced"
          => \A k \in DOMAIN outbox :
                (outbox[k].type = "metrics" /\ outbox[k].erleCount > 0)
                    => /\ WkErleMin * outbox[k].erleCount <= outbox[k].erleSum
                       /\ outbox[k].erleSum <= WkErleMax * outbox[k].erleCount


\* C20: Delay tracking.  When the delay between ref and mic changes from
\* half a block to a whole block, the exposed estimatedDelay is within 5
\* samples of the new delay from 113 blocks after the change on, for as
\* long as the delay stays the same.
C20_DelayTracking ==
    (under = "track" /\ track.changed /\ track.sinceChange >= 113 /\ track.silent = 0)
        => /\ Abs(rt.estimatedDelay - TrackDelayAfter) <= 5
           /\ Abs(out.rt.estimatedDelay - TrackDelayAfter) <= 5


\* A process call on a detector has just been made, on its own or inside
\* processBlock, and the hangover time configured at that call.
DidDetect == did.kind \in {"block", "detect"}
DidHangoverTime == IF did.kind = "detect" THEN did.config.hangoverTime ELSE HangoverTime

\* C21: In Hold, whenever the double-talk decision is true for a block, the
\* next state is DoubleTalk and the hangover counter is reloaded to the
\* configured hangover time, whatever the counter was.
C21_HoldDoubleTalkReloads ==
    (DidDetect /\ did.stateBefore = "hold" /\ did.isDoubleTalk)
        => /\ did.stateAfter = "double_talk"
           /\ did.counterAfter = DidHangoverTime


\* The far-end power after the block's update is above 1e-6, below 1e-7.
DidFarAboveOn == did.farEndPower > FarOnThreshold
DidFarBelowOff == did.farEndPower < FarOffThreshold

\* The transition the table gives from Idle, SingleTalk and DoubleTalk, as the
\* state after the block and whether the hangover counter is reloaded.
TableNext(state, farAboveOn, farBelowOff, dt) ==
    CASE state = "idle" ->
           IF farAboveOn
           THEN IF dt THEN [state |-> "double_talk", reload |-> TRUE]
                      ELSE [state |-> "single_talk", reload |-> FALSE]
           ELSE [state |-> "idle", reload |-> FALSE]
      [] state = "single_talk" ->
           IF dt THEN [state |-> "double_talk", reload |-> TRUE]
           ELSE IF farBelowOff THEN [state |-> "idle", reload |-> FALSE]
                ELSE [state |-> "single_talk", reload |-> FALSE]
      [] state = "double_talk" ->
           IF ~dt THEN [state |-> "hold", reload |-> TRUE]
                  ELSE [state |-> "double_talk", reload |-> FALSE]

\* C22: From Idle, SingleTalk and DoubleTalk the state after a block and the
\* hangover counter follow the table: the state is the table's, the counter
\* is the configured hangover time where the table reloads it and is left as
\* it was elsewhere.
C22_TransitionTable ==
    (DidDetect /\ did.stateBefore \in {"idle", "single_talk", "double_talk"})
        => \E t \in {TableNext(did.stateBefore, DidFarAboveOn, DidFarBelowOff,
                               did.isDoubleTalk)} :
              /\ did.stateAfter = t.state
              /\ did.counterAfter = IF t.reload THEN DidHangoverTime
                                                ELSE did.counterBefore


\* C23: In every state reachable by process, reset and updateConfig calls on
\* a detector configured with hangoverTime >= 0, the state is one of Idle,
\* SingleTalk, DoubleTalk, Hold and the hangover counter is >= 0.
C23_DetectorInvariant ==
    \A d \in {dtd, rt.dtd} :
        d.config.hangoverTime >= 0
            => /\ d.state \in {"idle", "single_talk", "double_talk", "hold"}
               /\ d.hangoverCounter >= 0


\* The reference samples of a block whose square exceeds 1e-6.
AboveGate(sig) ==
    {i \in 0..(BlockLen(sig.ref) - 1) :
        i \in sig.nanRef \/ sig.ref[i] * sig.ref[i] * 10^6 > SampleScale * SampleScale}

\* C24: NLMS adaptation gate.  The samples of a processed block modify the
\* weights and the power estimate only where the adapt flag is true and the
\* square of the reference sample exceeds 1e-6: a block processed with
\* adaptation off, or holding no such reference sample, leaves both as they
\* were.
C24_AdaptationGate ==
    (under = "nlms" /\ did.kind = "process")
        => /\ (~did.enableAdaptation \/ AboveGate(Signals[did.signal]) = {})
                => /\ nlms.weights = did.weightsBefore
                   /\ nlms.powerEstimate = did.powerBefore
                   /\ nlms.nan.weights = did.nanBefore.weights
                   /\ nlms.nan.powerEstimate = did.nanBefore.powerEstimate


\* C25: Delay hold on silence.  When a block's mic and ref are both silent,
\* the exposed estimatedDelay after the block equals its value before the
\* block, whatever that value was.
C25_DelayHeldOnSilence ==
    (under = "track" /\ track.silent > 0)
        => /\ rt.estimatedDelay = track.delayBefore
           /\ out.rt.estimatedDelay = track.delayBefore


\* C26: Return to Idle.  From any detector state, once the input is silent on
\* every block, the detector eventually reaches Idle and stays there.
C26_ReturnToIdle ==
    (under = "dtd" /\ quiet) ~> [](dtd.state = "idle")


\* C27: ParallelRecordingSystem lifecycle.  Once every startRecording call
\* has run to completion, whatever stopRecording and reset calls came in
\* between, isRecording false means the RealTimeProcessor is not processing
\* (so the next startRecording does not fail on 'Processing already active').
C27_RecordingLifecycle ==
    (under = "prs" /\ PrsSuspended(prs) = {} /\ ~prs.isRecording)
        => ~prs.isProcessing


\* C28: AudioRecorder auto-stop.  A recording is stopped automatically only
\* once maxDuration has elapsed since its own start, by the timeout its own
\* startRecording set: the timeout set for an earlier recording never stops
\* a later one.
C28_AutoStopOwnRecording ==
    (under = "rec" /\ rec.last.kind = "autoStopped")
        => /\ rec.last.setBy = rec.last.recording
           /\ rec.last.ran >= RecMaxDuration


\* C29: AudioPlayer playback state.  For as long as the most recently
\* started source has neither ended nor been stopped, isPlaying is true and
\* currentSource is that source, whatever 'ended' events of earlier sources
\* are delivered meanwhile.
C29_PlaybackState ==
    (under = "player" /\ player.sources # << >>
       /\ player.sources[Len(player.sources)] = "playing")
        => /\ player.isPlaying
           /\ player.currentSource = Len(player.sources)


\* The part of the worklet processor that filtering works on: the taps, the
\* two history buffers, the power histories, the indices, the sample counter
\* and the ERLE accumulators.
WkFilterState(w) ==
    [ adaptiveFilter |-> w.adaptiveFilter,
      microphoneBuffer |-> w.microphoneBuffer,
      systemAudioBuffer |-> w.systemAudioBuffer,
      micPowerHistory |-> w.micPowerHistory,
      echoPowerHistory |-> w.echoPowerHistory,
      bufferIndex |-> w.bufferIndex,
      powerIndex |-> w.powerIndex,
      processedSamples |-> w.processedSamples,
      erleSum |-> w.erleSum,
      erleCount |-> w.erleCount ]

\* C30: while the worklet processor is stopped, a process() call changes none
\* of the taps, the history buffers, the indices, the processedSamples
\* counter and the ERLE accumulators and posts nothing; a step that changes
\* any of them while stopped is the handling of a control message.
C30_StoppedFramesInert ==
    [][(under \in {"enhanced", "basic"} /\ ~wk.isProcessing)
         => /\ hist' = Append(hist, "frame")
                => /\ WkFilterState(wk') = WkFilterState(wk)
                   /\ ~wk'.isProcessing
                   /\ outbox' = outbox
                   /\ pushes' = pushes
            /\ (WkFilterState(wk') # WkFilterState(wk) \/ outbox' # outbox)
                => hist' = Append(hist, "message")]_vars

\* A stopped processor that holds adapted taps and a sample count from an
\* earlier run has been given a frame with both signals.
C30_Witness ==
    /\ under \in {"enhanced", "basic"}
    /\ did.kind = "frame"
    /\ out.wk.kind = "frame"
    /\ ~out.wk.wasProcessing
    /\ out.wk.shape \in {"stereo", "dual"}
    /\ WkHasBoth(wk, [shape |-> out.wk.shape])
    /\ wk.processedSamples > 0
    /\ \E i \in DOMAIN wk.adaptiveFilter : wk.adaptiveFilter[i] # 0

============================================================================
